---- MODULE Spec2Model ----
(***************************************************************************)
(* Model of the synthetic sensor data generators and of their orchestrator *)
(* (smoulick/industrial_iot_dashboard).                                    *)
(*                                                                         *)
(* Numeric channels are fixed-point integers in the unit of the rounding   *)
(* the generator applies when it writes the row:                           *)
(*   temperature_c  round(x, 2)  -> 0.01 degC   ("centi")                  *)
(*   pressure_bar   round(x, 3)  -> 0.001 bar   (retsch_grindcontrol)      *)
(*   pressure_bar   round(x, 2)  -> 0.01 bar    (s20_pressure)             *)
(*   vibration_g    round(x, 3)  -> 0.001 g                                *)
(*   accel_*_g      round(x, 4)  -> 0.0001 g                               *)
(*   sound_db       round(x, 2)  -> 0.01 dB                                *)
(*   fill_level_pct round(x, 1)  -> 0.1 %                                  *)
(* Random draws are inputs chosen with \E from small sets that hold the    *)
(* extremes.  Simulated elapsed time is in seconds.                        *)
(***************************************************************************)
EXTENDS Integers, Sequences, FiniteSets, TLC

VARIABLES
    bm,     \* one ball-mill generator: its loop counter and the row it wrote last
    fsys,   \* one output path and the generator invoked on it, run after run
    ind,    \* generate_inductive_data: hysteresis state
    us,     \* generate_ultrasonic_data: delay buffer, mode and switching state
    dur,    \* one sampling loop with run_duration_seconds set, and its clock
    orch,   \* MainDataGenerator.run_all_sensors and its worker threads
    run,    \* one call of a generator: where its control is, and what it wrote
    dash,   \* one sensor file shared by its generator and a dashboard page
    heat,   \* generate_heat_data: the fault state and the row written last
    tsw,    \* a touchswitch generator: alignment timer, fuse flag, last row
    imp,    \* generate_impact_bed_accelerometer_data: impact window and rows
    rul,    \* a sensor table as the dashboard loads it, and calculate_rul of it
    enc,    \* IncrementalEncoderSimulator: direction, pulse_count, last row
    lc      \* calls of generate_load_cell_data and the files they wrote

vars == <<bm, fsys, ind, us, dur, orch, run, dash, heat, tsw, imp, rul, enc, lc>>

----------------------------------------------------------------------------
(* Bounds of the model *)

\* rows one ball-mill generator writes in a run of the model
MaxRows == 1000

\* invocations of a generator on one output path, and data rows written to it
MaxRuns == 3

MaxFileRows == 4

\* rows one inductive generator writes in a run of the model
MaxIndRows == 5

\* rows one ultrasonic generator writes in a run of the model
MaxUsRows == 450

\* the wall clock of a timed run stops being advanced here, and the most time
\* a step of computation or an oversleep adds to it
MaxClock == 12

MaxLag == 1

\* rows one worker of the orchestrator writes in a run of the model
MaxWorkerRows == 2

\* rows one call of a generator writes in a run of the model
MaxRunRows == 3

\* rows the generator appends to the file a dashboard page shows, and forms
\* submitted on the page
MaxDashRows == 3

MaxInjections == 2

\* rows one call of generate_load_cell_data writes in a run of the model
MaxLcRows == 2

\* rows IncrementalEncoderSimulator.generate_data writes in a run of the model
MaxEncRows == 4

\* rows of the sensor file whose RUL column the dashboard computes
MaxRulRows == 4

\* rows generate_impact_bed_accelerometer_data writes in a run of the model
MaxImpRows == 9

\* seconds of wall clock a touchswitch generator runs in the model
MaxTswClock == 303

\* rows generate_heat_data writes in a run of the model
MaxHeatRows == 3

----------------------------------------------------------------------------
(* Arithmetic helpers *)

Min(a, b) == IF a <= b THEN a ELSE b

Max(a, b) == IF a >= b THEN a ELSE b

\* Python's round(n / d) for d > 0: to the nearest, an exact tie to the even one
RoundDiv(n, d) ==
    LET q == n \div d
        r == n % d
    IN IF 2 * r < d THEN q
       ELSE IF 2 * r > d THEN q + 1
       ELSE IF q % 2 = 0 THEN q ELSE q + 1

\* 10^9 * sin(2*pi*i/72), i = 0..71
Sin72 ==
    <<
       0, 87155743, 173648178, 258819045, 342020143, 422618262,
       500000000, 573576436, 642787610, 707106781, 766044443, 819152044,
       866025404, 906307787, 939692621, 965925826, 984807753, 996194698,
       1000000000, 996194698, 984807753, 965925826, 939692621,
       906307787, 866025404, 819152044, 766044443, 707106781, 642787610,
       573576436, 500000000, 422618262, 342020143, 258819045, 173648178,
       87155743, 0, -87155743, -173648178, -258819045, -342020143,
       -422618262, -500000000, -573576436, -642787610, -707106781,
       -766044443, -819152044, -866025404, -906307787, -939692621,
       -965925826, -984807753, -996194698, -1000000000, -996194698,
       -984807753, -965925826, -939692621, -906307787, -866025404,
       -819152044, -766044443, -707106781, -642787610, -573576436,
       -500000000, -422618262, -342020143, -258819045, -173648178,
       -87155743 >>

\* 10^9 * sin of the angle 2*pi*(num/den), for angles that are multiples of 2*pi/72
SinNano(num, den) == Sin72[(((num * 72) \div den) % 72) + 1]

\* round(amp * s / (10^9 * den)) for s = 10^9 * sin(..), den > 0 and amp >= 0:
\* the product is carried in three limbs of 10^3 to stay within 32-bit integers
ScaleBySin(amp, s, den) ==
    LET a0 == amp * (s % 1000)
        a1 == amp * ((s \div 1000) % 1000) + (a0 \div 1000)
        M == amp * (s \div 1000000) + (a1 \div 1000)
        low == (a1 % 1000) * 1000 + (a0 % 1000)
        d == 1000 * den
        q == M \div d
        r == M % d
    IN IF 2 * r < d THEN q
       ELSE IF 2 * r > d \/ low > 0 THEN q + 1
       ELSE IF q % 2 = 0 THEN q ELSE q + 1

\* the clamp every ball-mill generator applies last: max(MIN, min(x, MAX))
ClampNoUpper(x, lo, hi) == Max(lo, x)

Clamp(x, lo, hi) == Max(lo, Min(x, hi))

NoRow == [written |-> FALSE]

----------------------------------------------------------------------------
(* retsch_grindcontrol.py: temperature 0.01 degC, pressure 0.001 bar *)

retsch_TEMP_MIN == -2500
retsch_TEMP_MAX == 9000
retsch_PRESSURE_MIN == 0
retsch_PRESSURE_MAX == 5000
retsch_time_interval_sec == 30
retsch_event_trigger_time == 600
retsch_event_duration == 180

\* the three branches of the tick; ambient 22.0 degC and 1.0 bar, rise
\* 2.0 degC/min and 0.05 bar/min, spike 20.0 degC and 1.5 bar, cool-down
\* 0.01 degC/s and 0.001 bar/s
RetschReading(elapsed) ==
    LET T == retsch_event_trigger_time
        D == retsch_event_duration
        raw ==
            IF elapsed < T
            THEN [temp |-> 2200 + RoundDiv(200 * elapsed, 60),
                  pressure |-> 1000 + RoundDiv(50 * elapsed, 60),
                  event |-> 0]
            ELSE IF T <= elapsed /\ elapsed < T + D
            THEN [temp |-> 2200 + RoundDiv(200 * T, 60) + 2000,
                  pressure |-> 1000 + RoundDiv(50 * T, 60) + 1500,
                  event |-> 1]
            ELSE [temp |-> 2200 + RoundDiv(200 * T, 60) + 2000 - 1 * (elapsed - T - D),
                  pressure |-> 1000 + RoundDiv(50 * T, 60) + 1500 - 1 * (elapsed - T - D),
                  event |-> 0]
    IN [written |-> TRUE,
        elapsed |-> elapsed,
        temperature_c |-> Clamp(raw.temp, retsch_TEMP_MIN, retsch_TEMP_MAX),
        pressure_bar |-> Clamp(raw.pressure, retsch_PRESSURE_MIN, retsch_PRESSURE_MAX),
        event |-> raw.event]

----------------------------------------------------------------------------
(* tr10b_temperature.py: temperature 0.01 degC *)

tr10b_TEMP_MIN == -19600
tr10b_TEMP_MAX == 60000
tr10b_time_interval_sec == 30
tr10b_event_trigger_time == 900
tr10b_event_duration == 300

\* np.random.normal(0, noise_std) is unbounded: the draws the model takes
Tr10bNoise == {-100000, -50, 0, 50, 100000}

\* temp before the noise is added; ambient 25.0 degC, rise 5.0 degC/min,
\* spike 80.0 degC, post_event_cool_rate 0.05 degC/s
Tr10bPreNoiseLateEvent(elapsed) ==
    LET T == tr10b_event_trigger_time
        D == tr10b_event_duration
    IN IF elapsed <= T
       THEN [temp |-> 2500 + RoundDiv(500 * elapsed, 60), event |-> 0]
       ELSE IF elapsed < T + D
       THEN [temp |-> 2500 + RoundDiv(500 * T, 60) + 8000, event |-> 1]
       ELSE [temp |-> 2500 + RoundDiv(500 * T, 60) + 8000 - 5 * (elapsed - T - D),
             event |-> 0]

Tr10bPreNoise(elapsed) ==
    LET T == tr10b_event_trigger_time
        D == tr10b_event_duration
    IN IF elapsed < T
       THEN [temp |-> 2500 + RoundDiv(500 * elapsed, 60), event |-> 0]
       ELSE IF T <= elapsed /\ elapsed < T + D
       THEN [temp |-> 2500 + RoundDiv(500 * T, 60) + 8000, event |-> 1]
       ELSE [temp |-> 2500 + RoundDiv(500 * T, 60) + 8000 - 5 * (elapsed - T - D),
             event |-> 0]

Tr10bReading(elapsed, noise) ==
    LET pre == Tr10bPreNoise(elapsed)
    IN [written |-> TRUE,
        elapsed |-> elapsed,
        pre_noise |-> pre.temp,
        temperature_c |-> Clamp(pre.temp + noise, tr10b_TEMP_MIN, tr10b_TEMP_MAX),
        event |-> pre.event]

----------------------------------------------------------------------------
(* s20_pressure.py: pressure 0.01 bar *)

s20_PRESSURE_MIN == 0
s20_PRESSURE_MAX == 160000
s20_time_interval_sec == 30
s20_ramp_time == 300
s20_stable_time == 600
s20_spike_time == 180
s20_cool_time == 420

s20_total_cycle == s20_ramp_time + s20_stable_time + s20_spike_time + s20_cool_time

\* round(100 * 250 * exp(-0.05 * t)) for t = 0, 30, 60, ...
S20CoolTable == << 25000, 5578, 1245, 278, 62, 14, 3, 1 >>

S20Cool(t) ==
    IF (t \div 30) + 1 <= Len(S20CoolTable) THEN S20CoolTable[(t \div 30) + 1] ELSE 0

\* the guard of the overpressure branch
S20InSpikeInclusive(elapsed) ==
    /\ s20_ramp_time + s20_stable_time <= elapsed
    /\ elapsed <= s20_ramp_time + s20_stable_time + s20_spike_time

S20InSpike(elapsed) ==
    /\ s20_ramp_time + s20_stable_time <= elapsed
    /\ elapsed < s20_ramp_time + s20_stable_time + s20_spike_time

S20Reading(row_count) ==
    LET elapsed == (row_count * s20_time_interval_sec) % s20_total_cycle
        raw ==
            IF elapsed < s20_ramp_time
            THEN [pressure |-> 100 + RoundDiv((4000 - 100) * elapsed, s20_ramp_time),
                  event |-> 0]
            ELSE IF s20_ramp_time <= elapsed /\ elapsed < s20_ramp_time + s20_stable_time
            THEN [pressure |-> 4000 + ScaleBySin(100, SinNano(elapsed - s20_ramp_time, 60), 1),
                  event |-> 0]
            ELSE IF S20InSpike(elapsed)
            THEN [pressure |-> 25000 + ScaleBySin(8000, SinNano(
                                   elapsed - s20_ramp_time - s20_stable_time,
                                   2 * s20_spike_time), 1),
                  event |-> 1]
            ELSE [pressure |-> S20Cool(elapsed - s20_ramp_time - s20_stable_time
                                       - s20_spike_time),
                  event |-> 0]
    IN [written |-> TRUE,
        elapsed |-> elapsed,
        pressure_bar |-> Clamp(raw.pressure, s20_PRESSURE_MIN, s20_PRESSURE_MAX),
        event |-> raw.event]

----------------------------------------------------------------------------
(* mill_shell_acoustic.py: sound 0.01 dB, fill level 0.1 % *)

acoustic_SOUND_MIN == 5000
acoustic_SOUND_MAX == 12000
acoustic_FILL_MIN == 400
acoustic_FILL_MAX == 1300
acoustic_time_interval_sec == 10
acoustic_warmup == 240
acoustic_event_start == 600
acoustic_cooldown == 900

acoustic_event_end == acoustic_event_start + 2 * 60

acoustic_cycle_duration == acoustic_cooldown + 2 * 60

AcousticReading(row_count) ==
    LET elapsed == (row_count * acoustic_time_interval_sec) % acoustic_cycle_duration
        raw ==
            IF elapsed < acoustic_warmup
            THEN [fill |-> 450 + RoundDiv(250 * elapsed, acoustic_warmup),
                  sound |-> 6800 + ScaleBySin(200, SinNano(elapsed, 90), 1),
                  event |-> 0]
            ELSE IF acoustic_warmup <= elapsed /\ elapsed < acoustic_event_start
            THEN LET t == elapsed - acoustic_warmup
                 IN [fill |-> 700 + ScaleBySin(30, SinNano(t, 120), 1),
                     sound |-> 7200 + ScaleBySin(500, SinNano(t, 90), 1),
                     event |-> 0]
            ELSE IF acoustic_event_start <= elapsed /\ elapsed < acoustic_event_end
            THEN LET t == elapsed - acoustic_event_start
                     w == 2 * (acoustic_event_end - acoustic_event_start)
                 IN [fill |-> 1000 + ScaleBySin(200, SinNano(t, w), 1),
                     sound |-> 9000 + ScaleBySin(1500, SinNano(t, w), 1),
                     event |-> 1]
            ELSE LET t == elapsed - acoustic_event_end
                     c == acoustic_cooldown - acoustic_event_end
                 IN [fill |-> 1000 - RoundDiv(300 * t, c),
                     sound |-> 7500 - RoundDiv(1000 * t, c),
                     event |-> 0]
    IN [written |-> TRUE,
        elapsed |-> elapsed,
        sound_db |-> Clamp(raw.sound, acoustic_SOUND_MIN, acoustic_SOUND_MAX),
        fill_level_pct |-> Clamp(raw.fill, acoustic_FILL_MIN, acoustic_FILL_MAX),
        event |-> raw.event]

----------------------------------------------------------------------------
(* mill_shell_vibration.py: vibration 0.001 g, temperature 0.01 degC *)

vibration_VIBRATION_MIN == -50000
vibration_VIBRATION_MAX == 50000
vibration_TEMP_MIN == 200
vibration_TEMP_MAX == 12100
vibration_time_interval_sec == 10
vibration_event_trigger_time == 300
vibration_event_duration == 120
vibration_event_vibration_spike == 15000
vibration_event_temp_spike == 1500

\* random.uniform(-1, 1) g and random.uniform(-0.5, 0.5) degC: the draws taken
VibrationNoiseG == {-1000, 0, 1000}

VibrationNoiseT == {-50, 0, 50}

\* round(100 * 15.0 * exp(-0.01 * t)) for t = 0, 10, 20, ...
VibrationDecayTable ==
    << 1500, 1357, 1228, 1111, 1005, 910, 823, 745, 674, 610, 552, 499, 452,
       409, 370, 335, 303, 274, 248, 224, 203, 184, 166, 150, 136, 123, 111,
       101, 91, 83, 75, 68, 61, 55, 50, 45, 41, 37, 34, 30, 27, 25, 22, 20,
       18, 17, 15, 14, 12, 11, 10, 9, 8, 7, 7, 6, 6, 5, 5, 4, 4, 3, 3, 3, 2,
       2, 2, 2, 2, 2, 1, 1, 1, 1, 1, 1, 1, 1, 1, 1, 1 >>

\* event_temp_spike * exp(-0.01 * t)
VibrationDecay(t) ==
    IF (t \div 10) + 1 <= Len(VibrationDecayTable)
    THEN VibrationDecayTable[(t \div 10) + 1]
    ELSE 0

\* base_vibration: 10 g * sin(2*pi*(elapsed/60)/2) + uniform noise
VibrationBaseVibration(elapsed, noise_g) ==
    ScaleBySin(10000, SinNano(elapsed, 120), 1) + noise_g

\* base_temperature: 30 degC + 0.01 degC/s * elapsed + uniform noise
VibrationBaseTemperature(elapsed, noise_t) == 3000 + 1 * elapsed + noise_t

\* the event window of the tick: event_trigger_time <= elapsed < trigger + duration
VibrationInEventInclusive(elapsed) ==
    /\ vibration_event_trigger_time <= elapsed
    /\ elapsed <= vibration_event_trigger_time + vibration_event_duration

VibrationInEvent(elapsed) ==
    /\ vibration_event_trigger_time <= elapsed
    /\ elapsed < vibration_event_trigger_time + vibration_event_duration

VibrationReading(elapsed, noise_g, noise_t) ==
    LET base_vibration == VibrationBaseVibration(elapsed, noise_g)
        base_temperature == VibrationBaseTemperature(elapsed, noise_t)
        T == vibration_event_trigger_time
        D == vibration_event_duration
        raw ==
            IF VibrationInEvent(elapsed)
            THEN [vibration |-> base_vibration + vibration_event_vibration_spike,
                  temperature |-> base_temperature + vibration_event_temp_spike]
            ELSE IF elapsed >= T + D
            THEN [vibration |-> base_vibration,
                  temperature |-> base_temperature + VibrationDecay(elapsed - T - D)]
            ELSE [vibration |-> base_vibration,
                  temperature |-> base_temperature]
    IN [written |-> TRUE,
        elapsed |-> elapsed,
        noise_g |-> noise_g,
        noise_t |-> noise_t,
        vibration_g |-> Clamp(raw.vibration, vibration_VIBRATION_MIN,
                              vibration_VIBRATION_MAX),
        temperature_c |-> Clamp(raw.temperature, vibration_TEMP_MIN, vibration_TEMP_MAX)]

----------------------------------------------------------------------------
(* motor_temperature.py: temperature 0.01 degC *)

motor_TEMP_MIN == -4000
motor_TEMP_MAX == 15000
motor_time_interval_sec == 10
motor_event_trigger_time == 900
motor_event_duration == 120
motor_event_temp_spike == 4000

\* base_temp = 35 + 0.03 * elapsed
MotorBaseTemp(elapsed) == 3500 + 3 * elapsed

\* temperature before the clamp to the sensor range
MotorTemperatureValue(elapsed) ==
    LET base_temp == MotorBaseTemp(elapsed)
        T == motor_event_trigger_time
        D == motor_event_duration
    IN IF T <= elapsed /\ elapsed < T + D
       THEN base_temp + motor_event_temp_spike
       ELSE IF elapsed >= T + D
       THEN Max(base_temp + motor_event_temp_spike - 1 * (elapsed - T - D), base_temp)
       ELSE base_temp

MotorTemperatureReading(elapsed) ==
    [written |-> TRUE,
     elapsed |-> elapsed,
     temperature_c |-> Clamp(MotorTemperatureValue(elapsed), motor_TEMP_MIN, motor_TEMP_MAX)]

----------------------------------------------------------------------------
(* motor_accelerometer.py: acceleration 0.0001 g *)

accel_ACCEL_MIN == -100000
accel_ACCEL_MAX == 100000
accel_time_interval_sec == 10
accel_idle_duration == 180
accel_ramp_up_duration == 120
accel_steady_state_duration == 480
accel_fault_duration == 120
accel_shutdown_duration == 120

accel_total_cycle ==
    accel_idle_duration + accel_ramp_up_duration + accel_steady_state_duration
    + accel_fault_duration + accel_shutdown_duration

\* amplitudes are carried as 12 * (amplitude in 0.0001 g), which is an integer
\* in every phase for elapsed a multiple of the 10 s interval
AccelReading(row_count) ==
    LET elapsed == (row_count * accel_time_interval_sec) % accel_total_cycle
        p1 == accel_idle_duration
        p2 == p1 + accel_ramp_up_duration
        p3 == p2 + accel_steady_state_duration
        p4 == p3 + accel_fault_duration
        amp ==
            IF elapsed < p1
            THEN [x |-> 12 * 500, y |-> 12 * 300, z |-> 12 * 400, event |-> 0]
            ELSE IF p1 <= elapsed /\ elapsed < p2
            THEN [x |-> 12 * 1000 + (12 * 15000 * (elapsed - p1)) \div accel_ramp_up_duration,
                  y |-> 12 * 1000 + (12 * 10000 * (elapsed - p1)) \div accel_ramp_up_duration,
                  z |-> 12 * 1000 + (12 * 8000 * (elapsed - p1)) \div accel_ramp_up_duration,
                  event |-> 0]
            ELSE IF p2 <= elapsed /\ elapsed < p3
            THEN [x |-> 12 * 20000, y |-> 12 * 15000, z |-> 12 * 12000, event |-> 0]
            ELSE IF p3 <= elapsed /\ elapsed < p4
            THEN [x |-> 12 * 60000, y |-> 12 * 50000, z |-> 12 * 45000, event |-> 1]
            ELSE LET t == elapsed - p4
                     left == accel_shutdown_duration - t
                 IN [x |-> (12 * 20000 * left) \div accel_shutdown_duration,
                     y |-> (12 * 15000 * left) \div accel_shutdown_duration,
                     z |-> (12 * 12000 * left) \div accel_shutdown_duration,
                     event |-> 0]
        \* base_x: sin(2*pi*e/60); base_y: sin(2*pi*e/90 + pi/4); base_z: sin(2*pi*e/120 + pi/2)
        base_x == ScaleBySin(amp.x, SinNano(elapsed, 60), 12)
        base_y == ScaleBySin(amp.y, SinNano(8 * elapsed + 90, 720), 12)
        base_z == ScaleBySin(amp.z, SinNano(6 * elapsed + 180, 720), 12)
    IN [written |-> TRUE,
        elapsed |-> elapsed,
        accel_x_g |-> Clamp(base_x, accel_ACCEL_MIN, accel_ACCEL_MAX),
        accel_y_g |-> Clamp(base_y, accel_ACCEL_MIN, accel_ACCEL_MAX),
        accel_z_g |-> Clamp(base_z, accel_ACCEL_MIN, accel_ACCEL_MAX),
        event |-> amp.event]

----------------------------------------------------------------------------
(* The tick loop of the ball-mill generators, run without a duration limit *)

BallMillGens ==
    {"retsch_grindcontrol", "tr10b_temperature", "s20_pressure",
     "mill_shell_acoustic", "mill_shell_vibration", "motor_temperature",
     "motor_accelerometer"}

Parked == [pc |-> "parked"]

InitBallMill ==
    /\ \E g \in BallMillGens : bm = [gen |-> g, row_count |-> 0, row |-> NoRow]
    /\ fsys = Parked
    /\ ind = Parked
    /\ us = Parked
    /\ dur = Parked
    /\ orch = Parked
    /\ run = Parked
    /\ dash = Parked
    /\ heat = Parked
    /\ tsw = Parked
    /\ imp = Parked
    /\ rul = Parked
    /\ enc = Parked
    /\ lc = Parked

\* one pass of the while body: the reading, the row appended, row_count += 1
BmWrite(row) == bm' = [bm EXCEPT !.row = row, !.row_count = @ + 1]

TickRetsch ==
    /\ bm.gen = "retsch_grindcontrol"
    /\ bm.row_count < MaxRows
    /\ BmWrite(RetschReading(bm.row_count * retsch_time_interval_sec))
    /\ UNCHANGED <<fsys, ind, us, dur, orch, run, dash, heat, tsw, imp, rul, enc, lc>>

TickTr10b ==
    /\ bm.gen = "tr10b_temperature"
    /\ bm.row_count < MaxRows
    /\ \E noise \in Tr10bNoise :
           BmWrite(Tr10bReading(bm.row_count * tr10b_time_interval_sec, noise))
    /\ UNCHANGED <<fsys, ind, us, dur, orch, run, dash, heat, tsw, imp, rul, enc, lc>>

TickS20 ==
    /\ bm.gen = "s20_pressure"
    /\ bm.row_count < MaxRows
    /\ BmWrite(S20Reading(bm.row_count))
    /\ UNCHANGED <<fsys, ind, us, dur, orch, run, dash, heat, tsw, imp, rul, enc, lc>>

TickAcoustic ==
    /\ bm.gen = "mill_shell_acoustic"
    /\ bm.row_count < MaxRows
    /\ BmWrite(AcousticReading(bm.row_count))
    /\ UNCHANGED <<fsys, ind, us, dur, orch, run, dash, heat, tsw, imp, rul, enc, lc>>

TickVibration ==
    /\ bm.gen = "mill_shell_vibration"
    /\ bm.row_count < MaxRows
    /\ \E noise_g \in VibrationNoiseG, noise_t \in VibrationNoiseT :
           BmWrite(VibrationReading(bm.row_count * vibration_time_interval_sec,
                                    noise_g, noise_t))
    /\ UNCHANGED <<fsys, ind, us, dur, orch, run, dash, heat, tsw, imp, rul, enc, lc>>

TickMotorTemperature ==
    /\ bm.gen = "motor_temperature"
    /\ bm.row_count < MaxRows
    /\ BmWrite(MotorTemperatureReading(bm.row_count * motor_time_interval_sec))
    /\ UNCHANGED <<fsys, ind, us, dur, orch, run, dash, heat, tsw, imp, rul, enc, lc>>

TickAccel ==
    /\ bm.gen = "motor_accelerometer"
    /\ bm.row_count < MaxRows
    /\ BmWrite(AccelReading(bm.row_count))
    /\ UNCHANGED <<fsys, ind, us, dur, orch, run, dash, heat, tsw, imp, rul, enc, lc>>

NextBallMill ==
    \/ TickRetsch
    \/ TickTr10b
    \/ TickS20
    \/ TickAcoustic
    \/ TickVibration
    \/ TickMotorTemperature
    \/ TickAccel

SpecBallMill == InitBallMill /\ [][NextBallMill]_vars

InRange(x, lo, hi) == lo <= x /\ x <= hi

\* the index of the row written last
BmLastIndex == bm.row_count - 1

(* C1: every numeric channel written by retsch_grindcontrol, tr10b,          *)
(* mill_shell_vibration and motor_temperature lies inside the declared       *)
(* closed range of its sensor: temperature in [-25, 90] degC and pressure in *)
(* [0, 5] bar; [-196, 600] degC; vibration in [-50, 50] g and temperature in *)
(* [2, 121] degC; [-40, 150] degC.                                           *)
C1_RangeInvariant ==
    bm.row.written =>
        /\ bm.gen = "retsch_grindcontrol" =>
               /\ InRange(bm.row.temperature_c, -25 * 100, 90 * 100)
               /\ InRange(bm.row.pressure_bar, 0, 5 * 1000)
        /\ bm.gen = "tr10b_temperature" =>
               InRange(bm.row.temperature_c, -196 * 100, 600 * 100)
        /\ bm.gen = "mill_shell_vibration" =>
               /\ InRange(bm.row.vibration_g, -50 * 1000, 50 * 1000)
               /\ InRange(bm.row.temperature_c, 2 * 100, 121 * 100)
        /\ bm.gen = "motor_temperature" =>
               InRange(bm.row.temperature_c, -40 * 100, 150 * 100)

\* a row whose unclamped value left the range on either side was written
C1_Witness ==
    /\ bm.row.written
    /\ \/ bm.gen = "tr10b_temperature" /\ bm.row.temperature_c = 600 * 100
                                       /\ bm.row.pre_noise < 200 * 100
       \/ bm.gen = "retsch_grindcontrol" /\ bm.row.temperature_c = -25 * 100
                                         /\ bm.row.pressure_bar = 0
                                         /\ bm.row.elapsed > 12000
       \/ bm.gen = "motor_temperature" /\ bm.row.temperature_c = 150 * 100
                                       /\ MotorBaseTemp(bm.row.elapsed) > 150 * 100

\* the windows C7 states: start T and length D in seconds, and the cycle (0: none)
C7Windows ==
    [retsch_grindcontrol |-> [T |-> 600, D |-> 180, cycle |-> 0, interval |-> 30],
     tr10b_temperature |-> [T |-> 900, D |-> 300, cycle |-> 0, interval |-> 30],
     s20_pressure |-> [T |-> 900, D |-> 180, cycle |-> 1500, interval |-> 30],
     mill_shell_acoustic |-> [T |-> 600, D |-> 120, cycle |-> 1020, interval |-> 10],
     motor_accelerometer |-> [T |-> 780, D |-> 120, cycle |-> 1020, interval |-> 10]]

C7Elapsed(w, k) ==
    IF w.cycle = 0 THEN k * w.interval ELSE (k * w.interval) % w.cycle

(* C7: in every generator with an event column, the flag of a row is 1 iff   *)
(* the row's simulated elapsed time (row_count * interval, modulo the cycle  *)
(* in the cyclic generators) lies in [T, T+D); it is 0 at exactly T+D.       *)
C7_EventFlagWindow ==
    (bm.row.written /\ bm.gen \in DOMAIN C7Windows) =>
        LET w == C7Windows[bm.gen]
            e == C7Elapsed(w, BmLastIndex)
        IN bm.row.event = (IF w.T <= e /\ e < w.T + w.D THEN 1 ELSE 0)

\* the tick at exactly T+D of the second cycle of s20_pressure has flag 0
C7_Witness ==
    /\ bm.gen = "s20_pressure"
    /\ bm.row.written
    /\ BmLastIndex * 30 = 1500 + 900 + 180
    /\ bm.row.event = 0

\* the no-event baseline of a row of mill_shell_vibration or motor_temperature,
\* as the generator's own base_* formula gives it for that tick, clamped
C8BaselineTemperature(gen, row) ==
    IF gen = "mill_shell_vibration"
    THEN Clamp(VibrationBaseTemperature(row.elapsed, row.noise_t),
               vibration_TEMP_MIN, vibration_TEMP_MAX)
    ELSE Clamp(MotorBaseTemp(row.elapsed), motor_TEMP_MIN, motor_TEMP_MAX)

C8BaselineVibration(row) ==
    Clamp(VibrationBaseVibration(row.elapsed, row.noise_g),
          vibration_VIBRATION_MIN, vibration_VIBRATION_MAX)

\* the windows C8 states, the sampling interval, and the spikes in model units
C8Windows ==
    [mill_shell_vibration |-> [T |-> 300, D |-> 120, interval |-> 10,
                               temp_spike |-> 15 * 100, vib_spike |-> 15 * 1000],
     motor_temperature |-> [T |-> 900, D |-> 120, interval |-> 10,
                            temp_spike |-> 40 * 100, vib_spike |-> 0]]

\* C8 as stated: from one tick after T+D on, the emitted vibration and the
\* emitted temperature equal the no-event baseline of the tick
C8_EventEndsWithWindow ==
    (bm.row.written /\ bm.gen \in DOMAIN C8Windows) =>
        LET w == C8Windows[bm.gen]
        IN bm.row.elapsed >= w.T + w.D + w.interval =>
               /\ bm.row.temperature_c = C8BaselineTemperature(bm.gen, bm.row)
               /\ bm.gen = "mill_shell_vibration" =>
                      bm.row.vibration_g = C8BaselineVibration(bm.row)

\* what a written row of one of the two generators satisfies
C8RowOk(gen, row) ==
    LET w == C8Windows[gen]
        e == row.elapsed
        base == C8BaselineTemperature(gen, row)
        lo == IF gen = "mill_shell_vibration" THEN vibration_TEMP_MIN ELSE motor_TEMP_MIN
        hi == IF gen = "mill_shell_vibration" THEN vibration_TEMP_MAX ELSE motor_TEMP_MAX
        unclamped == IF gen = "mill_shell_vibration"
                     THEN VibrationBaseTemperature(e, row.noise_t)
                     ELSE MotorBaseTemp(e)
        withSpike == Clamp(unclamped + w.temp_spike, lo, hi)
    IN /\ e < w.T => row.temperature_c = base
       /\ (w.T <= e /\ e < w.T + w.D) => row.temperature_c = withSpike
       /\ e >= w.T + w.D => (base <= row.temperature_c /\ row.temperature_c <= withSpike)
       /\ gen = "mill_shell_vibration" =>
              row.vibration_g =
                  (IF w.T <= e /\ e < w.T + w.D
                   THEN Clamp(VibrationBaseVibration(e, row.noise_g) + w.vib_spike,
                              vibration_VIBRATION_MIN, vibration_VIBRATION_MAX)
                   ELSE C8BaselineVibration(row))

C8Excess(gen, row) == row.temperature_c - C8BaselineTemperature(gen, row)

(* C8 (amended): in mill_shell_vibration and motor_temperature the full      *)
(* spike is added exactly on the ticks with elapsed in [T, T+D); before T    *)
(* the readings equal the baseline; from T+D on the vibration equals the     *)
(* baseline again, and the temperature stays between the baseline and the    *)
(* baseline plus the spike, its excess over the baseline never increasing    *)
(* from one tick to the next (the recovery phase).                           *)
C8_EventWindowThenRecovery ==
    [][ (bm.gen \in DOMAIN C8Windows /\ bm'.row.written) =>
            /\ C8RowOk(bm.gen, bm'.row)
            /\ (bm.row.written
                /\ bm.row.elapsed >= C8Windows[bm.gen].T + C8Windows[bm.gen].D) =>
                   C8Excess(bm.gen, bm'.row) <= C8Excess(bm.gen, bm.row) ]_vars

\* a tick well after T+D whose temperature is still above the baseline while
\* its vibration is back on it
C8_Witness ==
    /\ bm.gen = "mill_shell_vibration"
    /\ bm.row.written
    /\ bm.row.elapsed = 300 + 120 + 100
    /\ bm.row.temperature_c > C8BaselineTemperature(bm.gen, bm.row)
    /\ bm.row.vibration_g = C8BaselineVibration(bm.row)

----------------------------------------------------------------------------
(* One output path and the generator that is invoked on it, run after run.  *)
(* The three ways the generators open their output:                         *)
(*   ball_mill  os.path.exists check, header with open(path, "w"), then      *)
(*              every row appended by its own open-write-close               *)
(*   conveyor   exists-and-non-empty check, open(path, 'a') once, header and *)
(*              rows through the buffered csv.writer of that handle          *)
(*   simulator  IncrementalEncoderSimulator / SmartIdlerSimulator            *)
(*              .generate_data: open(path, 'w') once, header always          *)
(* A file is [exists, lines]; buf holds the lines written to the open handle *)
(* that the I/O layer has not passed to the file yet.                        *)

FileGenKinds == {"ball_mill", "conveyor", "simulator"}

HeaderLine == [kind |-> "header", n |-> 0]

DataLine(n) == [kind |-> "row", n |-> n]

AbsentFile == [exists |-> FALSE, lines |-> <<>>]

EmptyFile == [exists |-> TRUE, lines |-> <<>>]

InitFiles ==
    /\ \E k \in FileGenKinds, f \in {AbsentFile, EmptyFile} :
           fsys = [kind |-> k, initial |-> f, file |-> f, buf |-> <<>>,
                   pc |-> "idle", runs |-> 0, rows |-> 0]
    /\ bm = Parked
    /\ ind = Parked
    /\ us = Parked
    /\ dur = Parked
    /\ orch = Parked
    /\ run = Parked
    /\ dash = Parked
    /\ heat = Parked
    /\ tsw = Parked
    /\ imp = Parked
    /\ rul = Parked
    /\ enc = Parked
    /\ lc = Parked

\* ball mill: "if not os.path.exists(output_path)" guards the header
BallMillNeedsHeader(file) == ~file.exists

\* conveyor: file_exists = path.exists() and path.stat().st_size > 0
ConveyorFileExistsNever(file) == FALSE

ConveyorFileExists(file) == file.exists /\ Len(file.lines) > 0

StartBallMill ==
    /\ fsys.kind = "ball_mill"
    /\ fsys.pc = "idle"
    /\ fsys.runs < MaxRuns
    /\ fsys' = [fsys EXCEPT
                   !.file = IF BallMillNeedsHeader(fsys.file)
                            THEN [exists |-> TRUE, lines |-> <<HeaderLine>>]
                            ELSE fsys.file,
                   !.pc = "loop",
                   !.runs = @ + 1]
    /\ UNCHANGED <<bm, ind, us, dur, orch, run, dash, heat, tsw, imp, rul, enc, lc>>

StartConveyor ==
    /\ fsys.kind = "conveyor"
    /\ fsys.pc = "idle"
    /\ fsys.runs < MaxRuns
    /\ fsys' = [fsys EXCEPT
                   !.file = [exists |-> TRUE, lines |-> fsys.file.lines],
                   !.buf = IF ~ConveyorFileExists(fsys.file)
                           THEN <<HeaderLine>>
                           ELSE <<>>,
                   !.pc = "loop",
                   !.runs = @ + 1]
    /\ UNCHANGED <<bm, ind, us, dur, orch, run, dash, heat, tsw, imp, rul, enc, lc>>

StartSimulator ==
    /\ fsys.kind = "simulator"
    /\ fsys.pc = "idle"
    /\ fsys.runs < MaxRuns
    /\ fsys' = [fsys EXCEPT
                   !.file = [exists |-> TRUE, lines |-> <<>>],
                   !.buf = <<HeaderLine>>,
                   !.pc = "loop",
                   !.runs = @ + 1]
    /\ UNCHANGED <<bm, ind, us, dur, orch, run, dash, heat, tsw, imp, rul, enc, lc>>

\* a ball-mill tick: the row goes to the file by an open-append-close of its own
TickAppendBallMill ==
    /\ fsys.kind = "ball_mill"
    /\ fsys.pc = "loop"
    /\ fsys.rows < MaxFileRows
    /\ fsys' = [fsys EXCEPT
                   !.file = [exists |-> TRUE,
                             lines |-> Append(fsys.file.lines, DataLine(fsys.rows + 1))],
                   !.rows = @ + 1]
    /\ UNCHANGED <<bm, ind, us, dur, orch, run, dash, heat, tsw, imp, rul, enc, lc>>

\* a conveyor or simulator tick: csv_writer.writerow on the open handle
TickWriterow ==
    /\ fsys.kind \in {"conveyor", "simulator"}
    /\ fsys.pc = "loop"
    /\ fsys.rows < MaxFileRows
    /\ fsys' = [fsys EXCEPT
                   !.buf = Append(fsys.buf, DataLine(fsys.rows + 1)),
                   !.rows = @ + 1]
    /\ UNCHANGED <<bm, ind, us, dur, orch, run, dash, heat, tsw, imp, rul, enc, lc>>

\* the I/O layer passes the buffered lines on (its buffer has filled)
BufferFlush ==
    /\ fsys.pc = "loop"
    /\ fsys.buf # <<>>
    /\ fsys' = [fsys EXCEPT
                   !.file = [exists |-> TRUE, lines |-> fsys.file.lines \o fsys.buf],
                   !.buf = <<>>]
    /\ UNCHANGED <<bm, ind, us, dur, orch, run, dash, heat, tsw, imp, rul, enc, lc>>

\* the loop ends (duration reached, or the interrupt caught): the with-block
\* closes the handle, which flushes it, and the generator returns
Finish ==
    /\ fsys.pc = "loop"
    /\ fsys' = [fsys EXCEPT
                   !.file = [exists |-> TRUE, lines |-> fsys.file.lines \o fsys.buf],
                   !.buf = <<>>,
                   !.pc = "idle"]
    /\ UNCHANGED <<bm, ind, us, dur, orch, run, dash, heat, tsw, imp, rul, enc, lc>>

NextFiles ==
    \/ StartBallMill
    \/ StartConveyor
    \/ StartSimulator
    \/ TickAppendBallMill
    \/ TickWriterow
    \/ BufferFlush
    \/ Finish

SpecFiles == InitFiles /\ [][NextFiles]_vars

\* everything written to the path so far, in order
Written == fsys.file.lines \o fsys.buf

HeaderThenRows(n) == <<HeaderLine>> \o [i \in 1..n |-> DataLine(i)]

(* C2: for the append-mode generators (ball-mill streams, inductive, heat,   *)
(* ultrasonic), starting from an absent file, what has been written after    *)
(* any number of sequential invocations is exactly one header line, first,   *)
(* followed by the N data rows; between invocations that is the file.        *)
C2_HeaderOnce ==
    (/\ fsys.pc # "parked"
     /\ fsys.kind \in {"ball_mill", "conveyor"}
     /\ fsys.initial = AbsentFile
     /\ fsys.runs >= 1) =>
        /\ Written = HeaderThenRows(fsys.rows)
        /\ fsys.pc = "idle" => fsys.file.lines = HeaderThenRows(fsys.rows)

\* a conveyor generator has been invoked three times on a path that was absent
\* at first, and the file holds rows
C2_Witness ==
    /\ fsys.pc = "idle"
    /\ fsys.kind = "conveyor"
    /\ fsys.initial = AbsentFile
    /\ fsys.runs = 3
    /\ fsys.rows >= 2
    /\ Len(fsys.file.lines) = fsys.rows + 1

\* C3 as stated: whatever generator runs, also on a file that existed with
\* zero length, the first line written to the file is the header
C3_HeaderBeforeFirstRow ==
    (fsys.pc # "parked" /\ fsys.rows >= 1) => Head(Written) = HeaderLine

IsPrefix(a, b) == Len(a) <= Len(b) /\ SubSeq(b, 1, Len(a)) = a

\* C4 as stated: no step of any generator, the start of a new run included,
\* removes or moves a line that is in the file
C4_AppendOnly ==
    [][ fsys.pc # "parked" => IsPrefix(fsys.file.lines, fsys'.file.lines) ]_vars

----------------------------------------------------------------------------
(* generate_inductive_data.  Distances are in thousandths of a millimetre;   *)
(* the row holds the distance rounded to hundredths.  The distance of a tick *)
(* is the time-driven sweep plus unbounded normal noise, floored at 0, so    *)
(* any non-negative value can occur on any tick.                             *)

DATASHEET_RATED_OPERATING_DISTANCE_SN == 40000

\* DATASHEET_HYSTERESIS_TYPICAL_PERCENT = 0.05, as parts per hundred
DATASHEET_HYSTERESIS_TYPICAL_PERCENT == 5

TurnOnDistance == DATASHEET_RATED_OPERATING_DISTANCE_SN

TurnOffDistance ==
    DATASHEET_RATED_OPERATING_DISTANCE_SN
        + (DATASHEET_RATED_OPERATING_DISTANCE_SN * DATASHEET_HYSTERESIS_TYPICAL_PERCENT) \div 100

\* sim_max_dist = turn_off_distance + 10; sim_min_dist = 0
SimMaxDist == TurnOffDistance + 10000

\* (position of the sweep, draw of np.random.normal(0, 0.1)) of a tick
IndDraws ==
    { <<0, -100>>, <<40000, -4>>, <<40000, 0>>, <<40000, 4>>, <<41000, 0>>,
      <<42000, 0>>, <<42000, 4>>, <<47000, 0>>, <<52000, 100>> }

\* np.clip to the simulated range, then the noise, then max(0, .)
IndDistance(sweep, noise) == Max(0, Clamp(sweep, 0, SimMaxDist) + noise)

IndDistances == { IndDistance(d[1], d[2]) : d \in IndDraws }

SwitchingFunctions == {"NO", "NC"}

InitialElectricalOutputStateOff(switching_function) == 0

InitialElectricalOutputState(switching_function) ==
    IF switching_function = "NC" THEN 1 ELSE 0

PreviousInternalSensingState(switching_function, last) ==
    IF switching_function = "NO" THEN last ELSE 1 - last

InternalTargetSensedNoMemory(previous, distance) ==
    IF distance <= TurnOnDistance THEN 1 ELSE 0

InternalTargetSensed(previous, distance) ==
    IF previous = 0
    THEN IF distance <= TurnOnDistance THEN 1 ELSE 0
    ELSE IF distance > TurnOffDistance THEN 0 ELSE 1

ElectricalOutputState(switching_function, sensed) ==
    IF switching_function = "NO" THEN sensed ELSE 1 - sensed

InitInductive ==
    /\ \E sf \in SwitchingFunctions :
           ind = [pc |-> "loop",
                  switching_function |-> sf,
                  last_electrical_output_state |-> InitialElectricalOutputState(sf),
                  i |-> 0,
                  rows |-> <<>>]
    /\ bm = Parked
    /\ fsys = Parked
    /\ us = Parked
    /\ dur = Parked
    /\ orch = Parked
    /\ run = Parked
    /\ dash = Parked
    /\ heat = Parked
    /\ tsw = Parked
    /\ imp = Parked
    /\ rul = Parked
    /\ enc = Parked
    /\ lc = Parked

\* one pass of the loop body: distance, hysteresis, writerow, i += 1
IndTick ==
    /\ ind.pc = "loop"
    /\ ind.i < MaxIndRows
    /\ \E distance \in IndDistances :
           LET previous == PreviousInternalSensingState(ind.switching_function,
                                                        ind.last_electrical_output_state)
               sensed   == InternalTargetSensed(previous, distance)
               current  == ElectricalOutputState(ind.switching_function, sensed)
           IN  ind' = [ind EXCEPT
                          !.last_electrical_output_state = current,
                          !.i = @ + 1,
                          !.rows = Append(@, [distance |-> distance,
                                              distance_to_target_mm |-> RoundDiv(distance, 10),
                                              output_state |-> current])]
    /\ UNCHANGED <<bm, fsys, us, dur, orch, run, dash, heat, tsw, imp, rul, enc, lc>>

\* the run duration is exceeded at the top of the loop, or the sleep is
\* interrupted: break
IndBreak ==
    /\ ind.pc = "loop"
    /\ ind' = [ind EXCEPT !.pc = "finished"]
    /\ UNCHANGED <<bm, fsys, us, dur, orch, run, dash, heat, tsw, imp, rul, enc, lc>>

NextInductive ==
    \/ IndTick
    \/ IndBreak

SpecInductive == InitInductive /\ [][NextInductive]_vars

IndPrevOutput(k) ==
    IF k = 1 THEN InitialElectricalOutputState(ind.switching_function)
    ELSE ind.rows[k - 1].output_state

IndOnTransitions ==
    Cardinality({k \in 1..Len(ind.rows) :
                    IndPrevOutput(k) = 0 /\ ind.rows[k].output_state = 1})

IndOffTransitions ==
    Cardinality({k \in 1..Len(ind.rows) :
                    IndPrevOutput(k) = 1 /\ ind.rows[k].output_state = 0})

\* the distances fall (weakly) down to tick m and rise (weakly) after it,
\* starting beyond the turn-off distance, reaching the turn-on distance and
\* ending beyond the turn-off distance again
IndApproachThenRetreat ==
    /\ Len(ind.rows) >= 3
    /\ ind.rows[1].distance > TurnOffDistance
    /\ ind.rows[Len(ind.rows)].distance > TurnOffDistance
    /\ \E m \in 1..Len(ind.rows) :
          /\ ind.rows[m].distance <= TurnOnDistance
          /\ \A k \in 1..(Len(ind.rows) - 1) :
                IF k < m THEN ind.rows[k + 1].distance <= ind.rows[k].distance
                         ELSE ind.rows[k + 1].distance >= ind.rows[k].distance

(* C5: with switching function NO, the output of generate_inductive_data     *)
(* goes 0 -> 1 only on a tick whose distance is <= turn_on_distance, goes    *)
(* 1 -> 0 only on a tick whose distance is > turn_off_distance, and keeps    *)
(* its previous value on every tick whose distance is in (turn_on, turn_off];*)
(* a monotonic approach followed by a monotonic retreat therefore gives      *)
(* exactly one on-transition and exactly one off-transition.                 *)
C5_Hysteresis ==
    (ind.pc # "parked" /\ ind.switching_function = "NO") =>
        /\ \A k \in 1..Len(ind.rows) :
              LET prev == IndPrevOutput(k)
                  cur  == ind.rows[k].output_state
                  d    == ind.rows[k].distance
              IN  /\ (prev = 0 /\ cur = 1) => d <= TurnOnDistance
                  /\ (prev = 1 /\ cur = 0) => d > TurnOffDistance
                  /\ (d > TurnOnDistance /\ d <= TurnOffDistance) => cur = prev
        /\ IndApproachThenRetreat => (IndOnTransitions = 1 /\ IndOffTransitions = 1)

\* an approach and retreat that dwells between the two thresholds on the way
\* in (output still 0) and on the way out (output still 1)
C5_Witness ==
    /\ ind.pc # "parked"
    /\ ind.switching_function = "NO"
    /\ IndApproachThenRetreat
    /\ \E k \in 1..Len(ind.rows) :
          /\ ind.rows[k].distance > TurnOnDistance
          /\ ind.rows[k].distance <= TurnOffDistance
          /\ ind.rows[k].output_state = 0
    /\ \E k \in 1..Len(ind.rows) :
          /\ ind.rows[k].distance > TurnOnDistance
          /\ ind.rows[k].distance <= TurnOffDistance
          /\ ind.rows[k].output_state = 1

----------------------------------------------------------------------------
(* generate_ultrasonic_data.  Distances are in tenths of a millimetre, times *)
(* in milliseconds.  distance_final_raw is a uniform draw plus noise, clipped *)
(* to the sensing range, so any value of the range can occur on any tick.    *)

DATASHEET_SENSING_RANGE_MIN == 500

DATASHEET_SENSING_RANGE_MAX == 8000

DATASHEET_RESPONSE_DELAY_MS == 100

\* DATASHEET_RANGE_HYSTERESIS_PERCENT = 0.01, as parts per hundred
DATASHEET_RANGE_HYSTERESIS_PERCENT == 1

DEFAULT_MODES == <<1, 2, 3, 4, 5>>

\* (a1, a2) settings: the datasheet defaults 70 mm / 800 mm, and 200 mm / 600 mm
UsSetPoints == {<<700, 8000>>, <<2000, 6000>>}

\* time_interval_seconds, in milliseconds: the default 0.05 s, 0.1 s, and 0
UsIntervals == {50, 100, 0}

HystAbs(a) == (DATASHEET_RANGE_HYSTERESIS_PERCENT * a) \div 100

\* values of the sensing range on both sides of every threshold of the setting
UsDistances(a1, a2) ==
    { d \in { DATASHEET_SENSING_RANGE_MIN,
              a1 - HystAbs(a1) - 1, a1 - HystAbs(a1), a1 - 1, a1,
              (a1 + a2) \div 2,
              a2, a2 + 1, a2 + HystAbs(a2), a2 + HystAbs(a2) + 1,
              DATASHEET_SENSING_RANGE_MAX } :
          d >= DATASHEET_SENSING_RANGE_MIN /\ d <= DATASHEET_SENSING_RANGE_MAX }

BufferSize(time_interval_ms) == Max(1, DATASHEET_RESPONSE_DELAY_MS \div time_interval_ms)

\* deque(maxlen = n).append
DequeAppend(buffer, x, n) ==
    IF Len(buffer) = n THEN Append(Tail(buffer), x) ELSE Append(buffer, x)

UsOutput(current_mode, last_output, d, a1, a2) ==
    CASE current_mode = 1 ->
            IF last_output = 0
            THEN IF a1 <= d /\ d <= a2 THEN 1 ELSE 0
            ELSE IF ~(a1 - HystAbs(a1) <= d /\ d <= a2 + HystAbs(a2)) THEN 0 ELSE 1
      [] current_mode = 2 ->
            IF last_output = 1
            THEN 0
            ELSE IF ~(a1 - HystAbs(a1) <= d /\ d <= a2 + HystAbs(a2)) THEN 1 ELSE 0
      [] current_mode = 3 ->
            IF last_output = 0
            THEN IF d <= a2 THEN 1 ELSE 0
            ELSE IF d > a2 + HystAbs(a2) THEN 0 ELSE 1
      [] current_mode = 4 ->
            IF last_output = 0
            THEN IF d >= a1 THEN 1 ELSE 0
            ELSE IF d < a1 - HystAbs(a1) THEN 0 ELSE 1
      [] OTHER ->
            IF d <= a2 THEN 1 ELSE 0

InitUltrasonic ==
    /\ \E sp \in UsSetPoints, iv \in UsIntervals :
           us = [pc |-> "start",
                 a1 |-> sp[1],
                 a2 |-> sp[2],
                 time_interval_ms |-> iv,
                 buffer_size |-> 0,
                 delay_buffer |-> <<>>,
                 last_output |-> 0,
                 i |-> 0,
                 mode_index |-> 0,
                 row |-> NoRow]
    /\ bm = Parked
    /\ fsys = Parked
    /\ ind = Parked
    /\ dur = Parked
    /\ orch = Parked
    /\ run = Parked
    /\ dash = Parked
    /\ heat = Parked
    /\ tsw = Parked
    /\ imp = Parked
    /\ rul = Parked
    /\ enc = Parked
    /\ lc = Parked

\* STAGE 1-4: a zero or negative interval aborts, otherwise the buffer is
\* sized, the file opened and the loop entered
UsStart ==
    /\ us.pc = "start"
    /\ IF us.time_interval_ms <= 0
       THEN us' = [us EXCEPT !.pc = "finished"]
       ELSE us' = [us EXCEPT !.pc = "loop",
                             !.buffer_size = BufferSize(us.time_interval_ms)]
    /\ UNCHANGED <<bm, fsys, ind, dur, orch, run, dash, heat, tsw, imp, rul, enc, lc>>

\* one pass of the loop body: draw, delay line, switching logic, writerow,
\* i += 1 and the change of mode every 100 rows
UsTick ==
    /\ us.pc = "loop"
    /\ us.i < MaxUsRows
    /\ \E distance_final_raw \in UsDistances(us.a1, us.a2) :
           LET current_mode == DEFAULT_MODES[us.mode_index + 1]
               buffer == DequeAppend(us.delay_buffer, distance_final_raw, us.buffer_size)
               delayed_distance ==
                   IF Len(buffer) = us.buffer_size THEN buffer[1] ELSE buffer[Len(buffer)]
               output == UsOutput(current_mode, us.last_output, delayed_distance,
                                  us.a1, us.a2)
           IN  us' = [us EXCEPT
                         !.delay_buffer = buffer,
                         !.last_output = output,
                         !.i = @ + 1,
                         !.mode_index = IF (us.i + 1) % 100 = 0
                                        THEN (@ + 1) % Len(DEFAULT_MODES)
                                        ELSE @,
                         !.row = [written |-> TRUE,
                                  mode |-> current_mode,
                                  delayed_distance |-> delayed_distance,
                                  previous_output |-> us.last_output,
                                  output |-> output]]
    /\ UNCHANGED <<bm, fsys, ind, dur, orch, run, dash, heat, tsw, imp, rul, enc, lc>>

\* the run duration is exceeded at the top of the loop, the sleep is
\* interrupted, or an exception reaches the function's except clause
UsBreak ==
    /\ us.pc = "loop"
    /\ us' = [us EXCEPT !.pc = "finished"]
    /\ UNCHANGED <<bm, fsys, ind, dur, orch, run, dash, heat, tsw, imp, rul, enc, lc>>

NextUltrasonic ==
    \/ UsStart
    \/ UsTick
    \/ UsBreak

SpecUltrasonic == InitUltrasonic /\ [][NextUltrasonic]_vars

\* the delayed distance has crossed the threshold that applies to the
\* previous output of the mode
UsCrossed(mode, previous_output, d, a1, a2) ==
    CASE mode = 1 ->
            IF previous_output = 0
            THEN a1 <= d /\ d <= a2
            ELSE d < a1 - HystAbs(a1) \/ d > a2 + HystAbs(a2)
      [] mode = 2 ->
            IF previous_output = 1
            THEN a1 <= d /\ d <= a2
            ELSE d < a1 - HystAbs(a1) \/ d > a2 + HystAbs(a2)
      [] mode = 3 ->
            IF previous_output = 0 THEN d <= a2 ELSE d > a2 + HystAbs(a2)
      [] mode = 4 ->
            IF previous_output = 0 THEN d >= a1 ELSE d < a1 - HystAbs(a1)
      [] OTHER -> TRUE

UsRowKeepsOrCrosses(modes) ==
    (us.pc # "parked" /\ us.row.written /\ us.row.mode \in modes) =>
        (us.row.output # us.row.previous_output =>
            UsCrossed(us.row.mode, us.row.previous_output, us.row.delayed_distance,
                      us.a1, us.a2))

\* C6 as stated: in each of the modes 1 to 4 the output of a tick differs
\* from the previous output only when the delayed distance has crossed the
\* threshold that applies to the previous output; otherwise it is kept, also
\* a previous output of 1 in mode 2 while the distance is outside [a1, a2]
C6_ModesKeepOutput == UsRowKeepsOrCrosses({1, 2, 3, 4})

----------------------------------------------------------------------------
(* The sampling loop of a generator called with run_duration_seconds = S     *)
(* and a positive interval.  now is the wall clock since the start of the    *)
(* run, taken to be non-decreasing; a check reads it, a tick computes and    *)
(* writes its row some time later, and the sleep returns after at least the  *)
(* interval.  Two forms of the check:                                        *)
(*   ball_mill  while (S is None) or (time.time() - start_time < S)          *)
(*   conveyor   if S is not None and elapsed > S: break                      *)

DurationKinds == {"ball_mill", "conveyor"}

RunDurations == {0, 2, 5}

DurIntervals == {1, 2}

LoopContinuesAlways(kind, elapsed, S) == TRUE

LoopContinues(kind, elapsed, S) ==
    IF kind = "ball_mill" THEN elapsed < S ELSE ~(elapsed > S)

InitDur ==
    /\ \E k \in DurationKinds, S \in RunDurations, iv \in DurIntervals :
           dur = [pc |-> "check",
                  kind |-> k,
                  run_duration_seconds |-> S,
                  time_interval |-> iv,
                  now |-> 0,
                  elapsed |-> 0,
                  rows |-> <<>>]
    /\ bm = Parked
    /\ fsys = Parked
    /\ ind = Parked
    /\ us = Parked
    /\ orch = Parked
    /\ run = Parked
    /\ dash = Parked
    /\ heat = Parked
    /\ tsw = Parked
    /\ imp = Parked
    /\ rul = Parked
    /\ enc = Parked
    /\ lc = Parked

\* top of the loop: read the clock and decide
DurCheck ==
    /\ dur.pc = "check"
    /\ dur.now < MaxClock
    /\ \E lag \in 0..MaxLag :
           LET elapsed == dur.now + lag
           IN  dur' = [dur EXCEPT
                          !.now = elapsed,
                          !.elapsed = elapsed,
                          !.pc = IF LoopContinues(dur.kind, elapsed, dur.run_duration_seconds)
                                 THEN "tick" ELSE "finished"]
    /\ UNCHANGED <<bm, fsys, ind, us, orch, run, dash, heat, tsw, imp, rul, enc, lc>>

\* the body of the loop up to the row being written
DurWriteRow ==
    /\ dur.pc = "tick"
    /\ \E lag \in 0..MaxLag :
           dur' = [dur EXCEPT
                      !.now = @ + lag,
                      !.rows = Append(@, [checked |-> dur.elapsed, at |-> dur.now + lag]),
                      !.pc = "sleep"]
    /\ UNCHANGED <<bm, fsys, ind, us, orch, run, dash, heat, tsw, imp, rul, enc, lc>>

\* time.sleep(interval) returns
DurSleep ==
    /\ dur.pc = "sleep"
    /\ \E lag \in 0..MaxLag :
           dur' = [dur EXCEPT !.now = @ + dur.time_interval + lag, !.pc = "check"]
    /\ UNCHANGED <<bm, fsys, ind, us, orch, run, dash, heat, tsw, imp, rul, enc, lc>>

NextDur ==
    \/ DurCheck
    \/ DurWriteRow
    \/ DurSleep

SpecDur == InitDur /\ [][NextDur]_vars /\ WF_vars(NextDur)

DurLateRows == {k \in 1..Len(dur.rows) : dur.rows[k].at > dur.run_duration_seconds}

DurCutoff ==
    dur.pc # "parked" =>
        /\ \A k \in 1..Len(dur.rows) : dur.rows[k].checked <= dur.run_duration_seconds
        /\ dur.elapsed > dur.run_duration_seconds => dur.pc = "finished"
        /\ Cardinality(DurLateRows) <= 1

(* C9: with run_duration_seconds = S and a positive interval, every row is   *)
(* written by a tick whose check at the top of the loop read an elapsed time *)
(* of at most S; once a check reads more than S the loop has ended and no    *)
(* row is written any more; at most one row is written after time S; and the *)
(* generator terminates.                                                     *)
C9_DurationCutoff ==
    /\ []DurCutoff
    /\ [][dur.pc = "finished" => dur' = dur]_vars
    /\ <>(dur.pc = "finished")

\* a run that ended after several rows, the last of them written after S
C9_Witness ==
    /\ dur.pc = "finished"
    /\ dur.run_duration_seconds = 2
    /\ Len(dur.rows) >= 2
    /\ Cardinality(DurLateRows) = 1

----------------------------------------------------------------------------
(* MainDataGenerator.run_all_sensors: one daemon thread per entry of         *)
(* sensor_configs, each running its generator on a file of its own, and the  *)
(* main thread joining them (a duration was given) or looping while running. *)
(* A worker can raise at any point of its run.  generate_inductive_data and  *)
(* generate_heat_data let the exception leave the thread's target, which     *)
(* ends that thread; generate_ultrasonic_data catches it and returns.        *)

SensorTypes == <<"inductive_presence", "inductive_limit", "ultrasonic", "heat">>

SensorTypeSet == {SensorTypes[k] : k \in 1..Len(SensorTypes)}

\* duration_seconds of run_all_sensors: None, 0, or a positive number of seconds
OrchDurations == {"None", "zero", "positive"}

CatchesException(sensor_type) == sensor_type = "ultrasonic"

DefaultFileShared(sensor_type) == "inductive_NBN40-CB1-PRESENCE_data.csv"

\* config["default_file"] of each entry of sensor_configs
DefaultFile(sensor_type) ==
    CASE sensor_type = "inductive_presence" -> "inductive_NBN40-CB1-PRESENCE_data.csv"
      [] sensor_type = "inductive_limit" -> "inductive_NBN40-CB1-LIMIT_data.csv"
      [] sensor_type = "ultrasonic" -> "ultrasonic_UB800-CB1-MAIN_data.csv"
      [] sensor_type = "heat" -> "heat_PATOL5450-CB1-HOTSPOT_data.csv"

InitOrch ==
    /\ \E d \in OrchDurations :
           orch = [pc |-> "start_threads",
                   duration_seconds |-> d,
                   running |-> TRUE,
                   next |-> 1,
                   warned |-> FALSE,
                   threads |-> <<>>,
                   worker |-> [w \in SensorTypeSet |->
                                  [pc |-> "not_started", rows |-> 0, raised |-> FALSE,
                                   output_path |-> "none"]]]
    /\ bm = Parked
    /\ fsys = Parked
    /\ ind = Parked
    /\ us = Parked
    /\ dur = Parked
    /\ run = Parked
    /\ dash = Parked
    /\ heat = Parked
    /\ tsw = Parked
    /\ imp = Parked
    /\ rul = Parked
    /\ enc = Parked
    /\ lc = Parked

WorkerAlive(worker) == worker.pc \in {"open", "tick", "sleep"}

\* an exception leaves a thread's target: with every worker running in the
\* main thread instead, it would end the orchestrator and the other workers
ExceptionEndsProcess(o, w) ==
    [o EXCEPT !.pc = "crashed",
              !.worker = [v \in SensorTypeSet |->
                             IF v = w
                             THEN [o.worker[v] EXCEPT !.pc = "died", !.raised = TRUE]
                             ELSE IF WorkerAlive(o.worker[v])
                                  THEN [o.worker[v] EXCEPT !.pc = "killed"]
                                  ELSE o.worker[v]]]

\* threading.Thread(target=...): an exception that leaves the target ends
\* that thread only
ExceptionEndsThread(o, w) ==
    [o EXCEPT !.worker[w].pc = "died", !.worker[w].raised = TRUE]

\* the for loop over sensor_configs: Thread(...), append, start
MainStartThread ==
    /\ orch.pc = "start_threads"
    /\ LET w == SensorTypes[orch.next]
       IN  orch' = [orch EXCEPT
                       !.worker[w].pc = "open",
                       !.worker[w].output_path = DefaultFile(w),
                       !.threads = Append(@, w),
                       !.next = @ + 1,
                       !.pc = IF orch.next < Len(SensorTypes) THEN "start_threads"
                              ELSE IF orch.duration_seconds = "positive" THEN "join"
                              ELSE "infinite_loop"]
    /\ UNCHANGED <<bm, fsys, ind, us, dur, run, dash, heat, tsw, imp, rul, enc, lc>>

\* for thread in self.threads: thread.join()
MainJoin ==
    /\ orch.pc = "join"
    /\ \A w \in SensorTypeSet : ~WorkerAlive(orch.worker[w])
    /\ orch' = [orch EXCEPT !.pc = "completed", !.running = FALSE]
    /\ UNCHANGED <<bm, fsys, ind, us, dur, run, dash, heat, tsw, imp, rul, enc, lc>>

\* while self.running: count the live threads, warn, sleep(10)
MainInfiniteLoop ==
    /\ orch.pc = "infinite_loop"
    /\ orch.running
    /\ orch' = [orch EXCEPT
                   !.warned = \E w \in SensorTypeSet : ~WorkerAlive(orch.worker[w])]
    /\ UNCHANGED <<bm, fsys, ind, us, dur, run, dash, heat, tsw, imp, rul, enc, lc>>

\* SIGINT: signal_handler stops the sensors and calls sys.exit(0); the daemon
\* threads end with the process
MainSignal ==
    /\ orch.pc \in {"start_threads", "join", "infinite_loop"}
    /\ orch' = [orch EXCEPT
                   !.pc = "exited",
                   !.running = FALSE,
                   !.worker = [w \in SensorTypeSet |->
                                  IF WorkerAlive(orch.worker[w])
                                  THEN [orch.worker[w] EXCEPT !.pc = "killed"]
                                  ELSE orch.worker[w]]]
    /\ UNCHANGED <<bm, fsys, ind, us, dur, run, dash, heat, tsw, imp, rul, enc, lc>>

\* the worker opens its file in append mode and writes the header if needed
WorkerOpen(w) ==
    /\ orch.worker[w].pc = "open"
    /\ orch' = [orch EXCEPT !.worker[w].pc = "tick"]
    /\ UNCHANGED <<bm, fsys, ind, us, dur, run, dash, heat, tsw, imp, rul, enc, lc>>

\* the worker passes the duration check and writes a row to its file
WorkerTick(w) ==
    /\ orch.worker[w].pc = "tick"
    /\ orch.worker[w].rows < MaxWorkerRows
    /\ orch' = [orch EXCEPT !.worker[w].pc = "sleep", !.worker[w].rows = @ + 1]
    /\ UNCHANGED <<bm, fsys, ind, us, dur, run, dash, heat, tsw, imp, rul, enc, lc>>

\* time.sleep(time_interval_seconds) returns
WorkerSleep(w) ==
    /\ orch.worker[w].pc = "sleep"
    /\ orch' = [orch EXCEPT !.worker[w].pc = "tick"]
    /\ UNCHANGED <<bm, fsys, ind, us, dur, run, dash, heat, tsw, imp, rul, enc, lc>>

\* the duration check at the top of the loop breaks; the generator returns
WorkerFinish(w) ==
    /\ orch.worker[w].pc = "tick"
    /\ orch.duration_seconds # "None"
    /\ orch' = [orch EXCEPT !.worker[w].pc = "finished"]
    /\ UNCHANGED <<bm, fsys, ind, us, dur, run, dash, heat, tsw, imp, rul, enc, lc>>

\* the worker raises while opening the file, inside a tick or in the sleep
WorkerRaise(w) ==
    /\ WorkerAlive(orch.worker[w])
    /\ orch' = IF CatchesException(w)
               THEN [orch EXCEPT !.worker[w].pc = "finished", !.worker[w].raised = TRUE]
               ELSE ExceptionEndsThread(orch, w)
    /\ UNCHANGED <<bm, fsys, ind, us, dur, run, dash, heat, tsw, imp, rul, enc, lc>>

NextOrch ==
    \/ MainStartThread
    \/ MainJoin
    \/ MainInfiniteLoop
    \/ MainSignal
    \/ \E w \in SensorTypeSet : WorkerOpen(w)
    \/ \E w \in SensorTypeSet : WorkerTick(w)
    \/ \E w \in SensorTypeSet : WorkerSleep(w)
    \/ \E w \in SensorTypeSet : WorkerFinish(w)
    \/ \E w \in SensorTypeSet : WorkerRaise(w)

SpecOrch == InitOrch /\ [][NextOrch]_vars

\* whatever has failed, a worker that has not failed itself and has not been
\* stopped by SIGINT can take its next step, and the orchestrator has not
\* crashed
OrchIsolated ==
    orch.pc # "parked" =>
        /\ orch.pc # "crashed"
        /\ \A v \in SensorTypeSet :
              /\ orch.worker[v].pc # "killed" \/ orch.pc = "exited"
              /\ orch.worker[v].pc = "open" => ENABLED WorkerOpen(v)
              /\ orch.worker[v].pc = "sleep" => ENABLED WorkerSleep(v)
              /\ (orch.worker[v].pc = "tick" /\ orch.worker[v].rows < MaxWorkerRows)
                     => ENABLED WorkerTick(v)

(* C10: when one worker of the orchestrator raises, at whatever point of its *)
(* run, the step changes nothing of any other worker, every other worker can *)
(* go on with its ticks and rows as before, and the orchestrator does not    *)
(* crash.                                                                    *)
C10_FailureIsolation ==
    /\ []OrchIsolated
    /\ [][ orch.pc # "parked" =>
             \A w \in SensorTypeSet :
                 (orch'.worker[w].raised /\ ~orch.worker[w].raised) =>
                     /\ orch'.pc = orch.pc
                     /\ \A v \in SensorTypeSet \ {w} : orch'.worker[v] = orch.worker[v] ]_vars

\* a worker died before writing a row, the ultrasonic worker failed too, and
\* another worker has written all its rows since the orchestrator started
C10_Witness ==
    /\ orch.pc \in {"join", "infinite_loop"}
    /\ orch.worker["inductive_presence"].pc = "died"
    /\ orch.worker["inductive_presence"].rows = 0
    /\ orch.worker["ultrasonic"].raised
    /\ orch.worker["heat"].rows = MaxWorkerRows
    /\ ~orch.worker["heat"].raised

\* C11 as stated: after an interrupt every worker leaves its loop by itself,
\* at the top of the loop or in its sleep, with its current tick finished;
\* none is ended by force at whatever point it has reached
C11_CooperativeCancellation ==
    orch.pc # "parked" =>
        \A w \in SensorTypeSet : orch.worker[w].pc # "killed"

\* C12 as stated: run_all_sensors blocks in its polling loop only when no
\* duration is set; with any duration, 0 included, it joins the workers and
\* returns with running = FALSE
C12_DurationSetJoins ==
    orch.pc # "parked" =>
        /\ orch.pc = "infinite_loop" => orch.duration_seconds = "None"
        /\ (orch.pc = "completed" => ~orch.running)

----------------------------------------------------------------------------
(* One call of a generator, followed through the points of its control flow: *)
(* the statements before the loop, the duration check at the top of the      *)
(* loop, the computation of the reading, the write of the row, the pacing    *)
(* sleep.  A KeyboardInterrupt can be raised in the calling thread at any of *)
(* the points inside the loop.  Where the handlers are:                      *)
(*   ball_mill   try: while ...: <whole body> except KeyboardInterrupt       *)
(*   inductive   try: time.sleep(...) except KeyboardInterrupt: break        *)
(*   heat        the same as inductive                                       *)
(*   ultrasonic  the same around the sleep, inside try: ... except Exception *)
(*               (which does not catch KeyboardInterrupt), and the only      *)
(*               generator that tests time_interval_seconds <= 0             *)

RunGens == {"ball_mill", "inductive", "heat", "ultrasonic"}

\* the sign of time_interval_seconds; the ball-mill generators have no such
\* parameter, their time_interval_sec is a positive constant
RunIntervals(gen) ==
    IF gen = "ball_mill" THEN {"positive"} ELSE {"negative", "zero", "positive"}

InitRun ==
    /\ \E g \in RunGens :
          \E iv \in RunIntervals(g) :
             run = [pc |-> "start",
                    gen |-> g,
                    time_interval_seconds |-> iv,
                    rows |-> 0,
                    interrupted |-> FALSE,
                    exception |-> "none"]
    /\ bm = Parked
    /\ fsys = Parked
    /\ ind = Parked
    /\ us = Parked
    /\ dur = Parked
    /\ orch = Parked
    /\ dash = Parked
    /\ heat = Parked
    /\ tsw = Parked
    /\ imp = Parked
    /\ rul = Parked
    /\ enc = Parked
    /\ lc = Parked

\* the generator rejects the interval before it opens the file
RejectsInterval(gen, interval) ==
    gen = "ultrasonic" /\ interval \in {"negative", "zero"}

\* the except clause that is in force at a point of the loop catches the
\* KeyboardInterrupt
CatchesInterrupt(gen, pc) ==
    IF gen = "ball_mill" THEN TRUE ELSE pc = "sleep"

\* the statements up to "while": initialisation, the interval test of the
\* ultrasonic generator, the header
RunStart ==
    /\ run.pc = "start"
    /\ run' = [run EXCEPT
                  !.pc = IF RejectsInterval(run.gen, run.time_interval_seconds)
                         THEN "returned" ELSE "check"]
    /\ UNCHANGED <<bm, fsys, ind, us, dur, orch, dash, heat, tsw, imp, rul, enc, lc>>

\* the duration check lets the tick begin
RunCheck ==
    /\ run.pc = "check"
    /\ run.rows < MaxRunRows
    /\ run' = [run EXCEPT !.pc = "compute"]
    /\ UNCHANGED <<bm, fsys, ind, us, dur, orch, dash, heat, tsw, imp, rul, enc, lc>>

\* the duration check ends the loop; the generator returns
RunDurationReached ==
    /\ run.pc = "check"
    /\ run' = [run EXCEPT !.pc = "returned"]
    /\ UNCHANGED <<bm, fsys, ind, us, dur, orch, dash, heat, tsw, imp, rul, enc, lc>>

\* the reading is computed
RunCompute ==
    /\ run.pc = "compute"
    /\ run' = [run EXCEPT !.pc = "write"]
    /\ UNCHANGED <<bm, fsys, ind, us, dur, orch, dash, heat, tsw, imp, rul, enc, lc>>

\* csv_writer.writerow / to_csv(mode='a') of the tick's row
RunWriteRow ==
    /\ run.pc = "write"
    /\ run' = [run EXCEPT !.pc = "sleep", !.rows = @ + 1]
    /\ UNCHANGED <<bm, fsys, ind, us, dur, orch, dash, heat, tsw, imp, rul, enc, lc>>

\* time.sleep(interval): a negative argument raises ValueError, which no
\* handler of inductive or heat catches and the ultrasonic one logs
RunSleep ==
    /\ run.pc = "sleep"
    /\ run' = IF run.time_interval_seconds = "negative"
              THEN IF run.gen = "ultrasonic"
                   THEN [run EXCEPT !.pc = "returned"]
                   ELSE [run EXCEPT !.pc = "raised", !.exception = "ValueError"]
              ELSE [run EXCEPT !.pc = "check"]
    /\ UNCHANGED <<bm, fsys, ind, us, dur, orch, dash, heat, tsw, imp, rul, enc, lc>>

\* KeyboardInterrupt at a point inside the loop; at "write" it arrives before
\* the row is handed to the writer
RunInterrupt ==
    /\ run.pc \in {"check", "compute", "write", "sleep"}
    /\ run' = IF CatchesInterrupt(run.gen, run.pc)
              THEN [run EXCEPT !.pc = "returned", !.interrupted = TRUE]
              ELSE [run EXCEPT !.pc = "raised", !.interrupted = TRUE,
                               !.exception = "KeyboardInterrupt"]
    /\ UNCHANGED <<bm, fsys, ind, us, dur, orch, dash, heat, tsw, imp, rul, enc, lc>>

NextRun ==
    \/ RunStart
    \/ RunCheck
    \/ RunDurationReached
    \/ RunCompute
    \/ RunWriteRow
    \/ RunSleep
    \/ RunInterrupt

SpecRun == InitRun /\ [][NextRun]_vars

\* C13 as stated: a generator stopped by an interrupt, at whatever point of
\* the tick the interrupt arrives, returns normally without raising
C13_GracefulInterrupt ==
    (run.pc # "parked" /\ run.interrupted) => run.pc = "returned"

\* C18 as stated: a call of generate_inductive_data, generate_heat_data or
\* generate_ultrasonic_data with time_interval_seconds <= 0 is rejected
\* before the tick loop is entered and writes no data row
C18_NonPositiveIntervalRejected ==
    (/\ run.pc # "parked"
     /\ run.gen \in {"inductive", "heat", "ultrasonic"}
     /\ run.time_interval_seconds \in {"negative", "zero"}) =>
        /\ run.pc \in {"start", "returned", "raised"}
        /\ run.rows = 0

----------------------------------------------------------------------------
(* One sensor file, its generator appending to it, and the dashboard page    *)
(* that shows it.  A run of the page script loads the file into a DataFrame  *)
(* (load_sensor_data: read_csv, to_datetime, sort_values) and, when the      *)
(* "Inject" form was submitted, appends one row to the DataFrame and writes  *)
(* the whole DataFrame back with to_csv.  The generator runs in another      *)
(* process, so its appends fall anywhere between the two.                    *)
(*   ball_mill  pages/03_Ball_Mill.py, Grinding Jar: sort descending         *)
(*   conveyor   pages/02_Conveyor_Belts.py, Inductive: sort ascending, and   *)
(*              columns event and rul added to the DataFrame                 *)
(* A row is [ts, origin, format]; the clock gives every row a later          *)
(* timestamp than the one before.                                            *)

DashPages == {"ball_mill", "conveyor"}

RECURSIVE InsertByTs(_, _)
InsertByTs(row, sorted) ==
    IF sorted = <<>> THEN <<row>>
    ELSE IF row.ts <= Head(sorted).ts THEN <<row>> \o sorted
    ELSE <<Head(sorted)>> \o InsertByTs(row, Tail(sorted))

RECURSIVE SortAscending(_)
SortAscending(rows) ==
    IF rows = <<>> THEN <<>>
    ELSE InsertByTs(Head(rows), SortAscending(Tail(rows)))

Reverse(rows) == [k \in 1..Len(rows) |-> rows[Len(rows) + 1 - k]]

\* pd.to_datetime on the timestamp column: the strings become Timestamps,
\* which to_csv prints with a space where isoformat() has a "T"
ToDatetime(rows) == [k \in 1..Len(rows) |-> [rows[k] EXCEPT !.format = "pandas"]]

\* load_sensor_data of the page
LoadSensorData(page, rows) ==
    IF page = "ball_mill"
    THEN Reverse(SortAscending(ToDatetime(rows)))
    ELSE SortAscending(ToDatetime(rows))

InitDash ==
    /\ \E p \in DashPages :
           dash = [pc |-> "running",
                   page |-> p,
                   file |-> <<>>,
                   columns |-> "generator",
                   loaded |-> FALSE,
                   df |-> <<>>,
                   now |-> 1,
                   appended |-> 0,
                   injected |-> 0]
    /\ bm = Parked
    /\ fsys = Parked
    /\ ind = Parked
    /\ us = Parked
    /\ dur = Parked
    /\ orch = Parked
    /\ run = Parked
    /\ heat = Parked
    /\ tsw = Parked
    /\ imp = Parked
    /\ rul = Parked
    /\ enc = Parked
    /\ lc = Parked

\* a tick of the generator: one row, stamped datetime.now().isoformat()
GenAppendRow ==
    /\ dash.pc = "running"
    /\ dash.appended < MaxDashRows
    /\ dash' = [dash EXCEPT
                   !.file = Append(@, [ts |-> dash.now, origin |-> "generator",
                                       format |-> "isoformat"]),
                   !.now = @ + 1,
                   !.appended = @ + 1]
    /\ UNCHANGED <<bm, fsys, ind, us, dur, orch, run, heat, tsw, imp, rul, enc, lc>>

\* a run of the page script (page load, auto-refresh, or the run a form
\* submit starts) reads the file
DashLoad ==
    /\ dash.pc = "running"
    /\ dash' = [dash EXCEPT
                   !.loaded = TRUE,
                   !.df = LoadSensorData(dash.page, dash.file)]
    /\ UNCHANGED <<bm, fsys, ind, us, dur, orch, run, heat, tsw, imp, rul, enc, lc>>

\* "if submit:" of the same run: the last row of the DataFrame is copied,
\* stamped and changed, concatenated, and the DataFrame written over the file
DashInject ==
    /\ dash.pc = "running"
    /\ dash.loaded
    /\ dash.df # <<>>
    /\ dash.injected < MaxInjections
    /\ dash' = [dash EXCEPT
                   !.file = Append(dash.df, [ts |-> dash.now, origin |-> "injected",
                                             format |-> "isoformat"]),
                   !.columns = IF dash.page = "conveyor"
                               THEN "generator+event+rul" ELSE @,
                   !.loaded = FALSE,
                   !.df = <<>>,
                   !.now = @ + 1,
                   !.injected = @ + 1]
    /\ UNCHANGED <<bm, fsys, ind, us, dur, orch, run, heat, tsw, imp, rul, enc, lc>>

NextDash ==
    \/ GenAppendRow
    \/ DashLoad
    \/ DashInject

SpecDash == InitDash /\ [][NextDash]_vars

DashTimestamps(rows) == {rows[k].ts : k \in 1..Len(rows)}

\* C14 as stated: a row the generator has appended is in the file in every
\* later state, also when anomaly injections interleave with the appends
C14_AppendedRowsStay ==
    [][ dash.pc # "parked" =>
            DashTimestamps(dash.file) \subseteq DashTimestamps(dash'.file) ]_vars

\* C15 as stated: no step of the dashboard (any step that is not an append of
\* the generator) changes the content, the row order or the column set of
\* the file
C15_DashboardReadOnly ==
    [][ (dash.pc # "parked" /\ dash'.appended = dash.appended) =>
            (dash'.file = dash.file /\ dash'.columns = dash.columns) ]_vars

\* C16 as stated: in every reachable state of the file the timestamps of its
\* rows are non-decreasing in file order
C16_TimestampsNonDecreasing ==
    dash.pc # "parked" =>
        \A k \in 1..(Len(dash.file) - 1) : dash.file[k].ts <= dash.file[k + 1].ts

\* C17 as stated: when a tick has ended and the pacing sleep begins, the
\* tick's row is in the file, not in the buffer of the generator's handle, so
\* a reader of the file sees one complete row per completed tick
C17_RowFlushedBeforeSleep ==
    fsys.pc # "parked" =>
        \A k \in 1..Len(fsys.buf) : fsys.buf[k].kind # "row"

\* C19 as stated: every distance_to_target_mm that generate_inductive_data
\* writes lies in [sim_min_dist, sim_max_dist] = [0, turn_off_distance + 10],
\* whatever the noise draw
C19_DistanceWithinSimulatedRange ==
    ind.pc # "parked" =>
        \A k \in 1..Len(ind.rows) :
            /\ ind.rows[k].distance_to_target_mm >= 0
            /\ ind.rows[k].distance_to_target_mm <= RoundDiv(SimMaxDist, 10)

----------------------------------------------------------------------------
(* generate_tr10b_temperature_stream run against a clock: the loop test     *)
(* reads time.time(), the body writes one row, time.sleep(30) advances the  *)
(* clock by the interval and nothing else takes time                        *)

Tr10bRunDurations == {0, 100, 1000}

Tr10bStartTimes == {0, 7}

InitTr10b ==
    /\ \E S \in Tr10bRunDurations, t0 \in Tr10bStartTimes :
           bm = [pc |-> "test",
                 gen |-> "tr10b_temperature",
                 run_duration_seconds |-> S,
                 start_time |-> t0,
                 now |-> t0,
                 row_count |-> 0,
                 row |-> NoRow,
                 rows |-> <<>>]
    /\ fsys = Parked
    /\ ind = Parked
    /\ us = Parked
    /\ dur = Parked
    /\ orch = Parked
    /\ run = Parked
    /\ dash = Parked
    /\ heat = Parked
    /\ tsw = Parked
    /\ imp = Parked
    /\ rul = Parked
    /\ enc = Parked
    /\ lc = Parked

\* while time.time() - start_time < run_duration_seconds
Tr10bLoopTest ==
    /\ bm.pc = "test"
    /\ bm' = [bm EXCEPT
                 !.pc = IF LoopContinues("ball_mill", bm.now - bm.start_time,
                                         bm.run_duration_seconds)
                        THEN "body" ELSE "returned"]
    /\ UNCHANGED <<fsys, ind, us, dur, orch, run, dash, heat, tsw, imp, rul, enc, lc>>

\* the body: elapsed = row_count * 30, the reading, the row, row_count += 1
Tr10bBody ==
    /\ bm.pc = "body"
    /\ \E noise \in Tr10bNoise :
           LET r == Tr10bReading(bm.row_count * tr10b_time_interval_sec, noise)
           IN  bm' = [bm EXCEPT
                         !.row = r,
                         !.rows = Append(@, [elapsed |-> r.elapsed,
                                             pre_noise |-> r.pre_noise,
                                             event |-> r.event]),
                         !.row_count = @ + 1,
                         !.pc = "sleep"]
    /\ UNCHANGED <<fsys, ind, us, dur, orch, run, dash, heat, tsw, imp, rul, enc, lc>>

\* time.sleep(time_interval_sec) on the ideal clock
Tr10bSleep ==
    /\ bm.pc = "sleep"
    /\ bm' = [bm EXCEPT !.now = @ + tr10b_time_interval_sec, !.pc = "test"]
    /\ UNCHANGED <<fsys, ind, us, dur, orch, run, dash, heat, tsw, imp, rul, enc, lc>>

NextTr10b ==
    \/ Tr10bLoopTest
    \/ Tr10bBody
    \/ Tr10bSleep

SpecTr10b == InitTr10b /\ [][NextTr10b]_vars

\* C20: with run_duration_seconds = 1000 on the ideal clock the generator
\* returns with exactly 34 rows; before the noise rows 0..29 hold 25 + 2.5*k
\* degC with event 0 and rows 30..33 hold 180 degC with event 1
C20_Tr10bExample ==
    (bm.pc # "parked" /\ bm.run_duration_seconds = 1000) =>
        /\ Len(bm.rows) <= 34
        /\ bm.pc = "returned" => Len(bm.rows) = 34
        /\ \A i \in 1..Len(bm.rows) :
               LET k == i - 1
               IN  /\ bm.rows[i].elapsed = 30 * k
                   /\ k <= 29 => /\ bm.rows[i].pre_noise = 2500 + 250 * k
                                 /\ bm.rows[i].event = 0
                   /\ k >= 30 => /\ bm.rows[i].pre_noise = 18000
                                 /\ bm.rows[i].event = 1

C20_Witness ==
    /\ bm.pc = "returned"
    /\ bm.run_duration_seconds = 1000
    /\ Len(bm.rows) = 34
    /\ bm.rows[30].event = 0
    /\ bm.rows[31].event = 1
    /\ bm.rows[34].pre_noise = 18000

\* the workers that hold their output file open
OrchWriters == { w \in SensorTypeSet : orch.worker[w].pc \in {"tick", "sleep"} }

\* C21: once the start loop has ended, threads holds one thread per entry of
\* sensor_configs, each entry once; and at no time do two workers hold the
\* same output file
C21_OneWorkerPerConfigOwnFile ==
    orch.pc # "parked" =>
        /\ orch.pc \in {"join", "infinite_loop", "completed"} =>
              /\ Len(orch.threads) = Len(SensorTypes)
              /\ \A w \in SensorTypeSet :
                     Cardinality({k \in 1..Len(orch.threads) : orch.threads[k] = w}) = 1
        /\ \A v \in OrchWriters : \A w \in OrchWriters \ {v} :
               orch.worker[v].output_path # orch.worker[w].output_path

\* the four workers are all in their loops, each with rows in its file
C21_Witness ==
    /\ orch.pc \in {"join", "infinite_loop"}
    /\ OrchWriters = SensorTypeSet
    /\ \A w \in SensorTypeSet : orch.worker[w].rows >= 1

\* the excess over the baseline of the temperature a generator computes at
\* elapsed, before noise: ambient_temp 22.0 (retsch_grindcontrol), ambient_temp
\* 25.0 (tr10b), base_temp (motor_temperature)
RecoveryExcess(gen, elapsed) ==
    CASE gen = "retsch_grindcontrol" -> RetschReading(elapsed).temperature_c - 2200
      [] gen = "tr10b_temperature" -> Tr10bPreNoise(elapsed).temp - 2500
      [] gen = "motor_temperature" -> MotorTemperatureValue(elapsed) - MotorBaseTemp(elapsed)

RecoveryStart(gen) ==
    CASE gen = "retsch_grindcontrol" -> retsch_event_trigger_time + retsch_event_duration
      [] gen = "tr10b_temperature" -> tr10b_event_trigger_time + tr10b_event_duration
      [] gen = "motor_temperature" -> motor_event_trigger_time + motor_event_duration

RecoveryInterval(gen) ==
    CASE gen = "retsch_grindcontrol" -> retsch_time_interval_sec
      [] gen = "tr10b_temperature" -> tr10b_time_interval_sec
      [] gen = "motor_temperature" -> motor_time_interval_sec

\* C22 as stated: on every tick of the recovery phase (elapsed >= T + D) of
\* retsch_grindcontrol, tr10b and motor_temperature the excess of the
\* temperature over the baseline is no larger than on the tick before and is
\* never negative, however long the run
C22_RecoveryNoUndershoot ==
    (/\ bm.gen \in {"retsch_grindcontrol", "tr10b_temperature", "motor_temperature"}
     /\ bm.row.written
     /\ bm.row.elapsed >= RecoveryStart(bm.gen)) =>
        /\ RecoveryExcess(bm.gen, bm.row.elapsed) >= 0
        /\ RecoveryExcess(bm.gen, bm.row.elapsed)
               <= RecoveryExcess(bm.gen, bm.row.elapsed - RecoveryInterval(bm.gen))

----------------------------------------------------------------------------
(* generate_heat_data: one tick draws the material temperature (a hot spot  *)
(* or a clipped fluctuation around ambient), may toggle fault_state, sets   *)
(* fire_alarm_state and the two LEDs and writes the row.  Temperatures in   *)
(* 0.001 degC; the row holds round(current_material_temp, 2), in 0.01 degC. *)

HeatAmbient == 25000

\* hot_spot_detection_threshold_celsius: the default 80.0, and 30.0
HeatThresholds == {80000, 30000}

HeatHotSpotMax == 200000

\* random.uniform(threshold, hot_spot_max_temp_celsius)
HeatHotSpotDraws(threshold) == {threshold, threshold + 4, HeatHotSpotMax}

\* np.random.normal(0, 2), in 0.001 degC
HeatNoiseDraws == {-20000, 0, 4994, 4996, 5000, 30000}

\* ambient + noise, clipped to [ambient - 10, ambient + 20]
HeatNormalTemp(noise) ==
    Clamp(HeatAmbient + noise, HeatAmbient - 10000, HeatAmbient + 20000)

FireAlarmStateLatching(current_material_temp, threshold, fire_alarm_state) ==
    IF current_material_temp >= threshold THEN 1 ELSE fire_alarm_state

\* lines 98-101; fire_alarm_state is the value the variable holds from the
\* tick before
FireAlarmState(current_material_temp, threshold, fire_alarm_state) ==
    IF current_material_temp >= threshold THEN 1 ELSE 0

\* lines 105-115
HeatLeds(fault_state, fire_alarm_state) ==
    IF fault_state = 1 THEN [green_led_normal |-> 0, red_led_trip |-> 0]
    ELSE IF fire_alarm_state = 1 THEN [green_led_normal |-> 0, red_led_trip |-> 1]
    ELSE [green_led_normal |-> 1, red_led_trip |-> 0]

InitHeat ==
    /\ \E th \in HeatThresholds :
           heat = [pc |-> "loop",
                   hot_spot_detection_threshold_celsius |-> th,
                   fire_alarm_state |-> 0,
                   fault_state |-> 0,
                   green_led_normal |-> 1,
                   red_led_trip |-> 0,
                   i |-> 0,
                   prev_fire_alarm_state |-> 0,
                   row |-> NoRow]
    /\ bm = Parked
    /\ fsys = Parked
    /\ ind = Parked
    /\ us = Parked
    /\ dur = Parked
    /\ orch = Parked
    /\ run = Parked
    /\ dash = Parked
    /\ tsw = Parked
    /\ imp = Parked
    /\ rul = Parked
    /\ enc = Parked
    /\ lc = Parked

\* one pass of the loop body with the draws of the tick given
HeatStep(current_material_temp, toggle) ==
    LET th == heat.hot_spot_detection_threshold_celsius
        fault == IF toggle THEN 1 - heat.fault_state ELSE heat.fault_state
        alarm == FireAlarmState(current_material_temp, th, heat.fire_alarm_state)
        leds == HeatLeds(fault, alarm)
    IN  heat' = [heat EXCEPT
                    !.fire_alarm_state = alarm,
                    !.fault_state = fault,
                    !.green_led_normal = leds.green_led_normal,
                    !.red_led_trip = leds.red_led_trip,
                    !.i = @ + 1,
                    !.prev_fire_alarm_state = heat.fire_alarm_state,
                    !.row = [written |-> TRUE,
                             current_material_temp |-> current_material_temp,
                             simulated_material_temp_c |-> RoundDiv(current_material_temp, 10),
                             fire_alarm_state |-> alarm,
                             fault_state |-> fault,
                             green_led_normal_status |-> leds.green_led_normal,
                             red_led_trip_status |-> leds.red_led_trip]]

\* random.random() < probability_of_hot_spot
HeatTickHotSpot ==
    /\ heat.pc = "loop"
    /\ heat.i < MaxHeatRows
    /\ \E t \in HeatHotSpotDraws(heat.hot_spot_detection_threshold_celsius),
          toggle \in BOOLEAN : HeatStep(t, toggle)
    /\ UNCHANGED <<bm, fsys, ind, us, dur, orch, run, dash, tsw, imp, rul, enc, lc>>

\* the else branch: a fluctuation around ambient
HeatTickNormal ==
    /\ heat.pc = "loop"
    /\ heat.i < MaxHeatRows
    /\ \E noise \in HeatNoiseDraws, toggle \in BOOLEAN :
           HeatStep(HeatNormalTemp(noise), toggle)
    /\ UNCHANGED <<bm, fsys, ind, us, dur, orch, run, dash, tsw, imp, rul, enc, lc>>

NextHeat ==
    \/ HeatTickHotSpot
    \/ HeatTickNormal

SpecHeat == InitHeat /\ [][NextHeat]_vars

\* the LED columns of a row as the claim states them
HeatLedsOfRow(row) ==
    /\ row.green_led_normal_status = 1
           <=> (row.fault_state = 0 /\ row.fire_alarm_state = 0)
    /\ row.red_led_trip_status = 1
           <=> (row.fault_state = 0 /\ row.fire_alarm_state = 1)
    /\ ~(row.green_led_normal_status = 1 /\ row.red_led_trip_status = 1)

\* C23 as stated: in every row fire_alarm_state = 1 iff the row's material
\* temperature (the simulated_material_temp_c column) >= the threshold, and
\* the LEDs follow fault_state and fire_alarm_state of the row
C23_FlagsOfWrittenRow ==
    (heat.pc # "parked" /\ heat.row.written) =>
        /\ heat.row.fire_alarm_state = 1
               <=> (heat.row.simulated_material_temp_c * 10
                        >= heat.hot_spot_detection_threshold_celsius)
        /\ HeatLedsOfRow(heat.row)

\* C23 amended: in every row fire_alarm_state = 1 iff the material temperature
\* of that tick, before it is rounded to two decimals for the row, >= the
\* threshold, whatever the flags of earlier ticks were; green LED = 1 iff
\* fault_state = 0 and fire_alarm_state = 0; red LED = 1 iff fault_state = 0
\* and fire_alarm_state = 1; the two LEDs are never both 1
C23_FlagsMemoryless ==
    (heat.pc # "parked" /\ heat.row.written) =>
        /\ heat.row.fire_alarm_state = 1
               <=> (heat.row.current_material_temp
                        >= heat.hot_spot_detection_threshold_celsius)
        /\ HeatLedsOfRow(heat.row)

\* the alarm of the tick before is gone on a tick below the threshold whose
\* written temperature equals the threshold
C23_Witness ==
    /\ heat.pc # "parked"
    /\ heat.row.written
    /\ heat.prev_fire_alarm_state = 1
    /\ heat.row.fire_alarm_state = 0
    /\ heat.row.simulated_material_temp_c * 10 = heat.hot_spot_detection_threshold_celsius
    /\ heat.row.green_led_normal_status = 1

\* C24 as stated: the delay buffer never holds more than N = buffer_size
\* values; on a tick that finds the buffer full the distance emitted is the
\* value computed exactly N ticks earlier, the oldest value the buffer held
\* before the tick; until the buffer has filled the emitted distance is the
\* value computed on the tick itself
C24_ResponseLagOfNTicks ==
    [][ (us.pc = "loop" /\ us'.i = us.i + 1) =>
            /\ Len(us'.delay_buffer) <= us.buffer_size
            /\ Len(us.delay_buffer) = us.buffer_size =>
                   us'.row.delayed_distance = us.delay_buffer[1]
            /\ Len(us'.delay_buffer) < us.buffer_size =>
                   us'.row.delayed_distance = us'.delay_buffer[Len(us'.delay_buffer)] ]_vars

----------------------------------------------------------------------------
(* generate_touchswitch_conveyor_data and generate_touchswitch_pulley_data: *)
(* one tick reads the clock, draws the force, updates the alarm timer and   *)
(* the fuse, writes the row and sleeps one second.  Times in seconds,       *)
(* forces in 0.01 N.                                                        *)

TswGens == {"touchswitch_conveyor", "touchswitch_pulley"}

\* timedelta(minutes=5)
thermal_alarm_threshold == 300

\* time.sleep(1) returns after one second, or later
TswSleeps == {1, 100}

\* the force a tick can draw: conveyor uniform(1, 4), a spike uniform(8.5, 15)
\* in production hours and uniform(0.5, 2) outside them; pulley
\* max(0, sinusoid + noise), plus a spike, scaled down outside production hours
TswForces(gen, operational_mode) ==
    IF gen = "touchswitch_conveyor"
    THEN IF operational_mode = 1 THEN {250, 850} ELSE {125}
    ELSE {799, 800}

NoAlarmStart == -1

TswAlarmNoReset(alignment_status, in_alarm, last_alarm_start, now) ==
    IF alignment_status = 1 /\ ~in_alarm
    THEN [last_alarm_start |-> now, in_alarm |-> TRUE]
    ELSE [last_alarm_start |-> last_alarm_start, in_alarm |-> in_alarm]

\* if alignment_status == 1 and not in_alarm: ... elif alignment_status == 0: ...
TswAlarm(alignment_status, in_alarm, last_alarm_start, now) ==
    IF alignment_status = 1 /\ ~in_alarm
    THEN [last_alarm_start |-> now, in_alarm |-> TRUE]
    ELSE IF alignment_status = 0
    THEN [last_alarm_start |-> NoAlarmStart, in_alarm |-> FALSE]
    ELSE [last_alarm_start |-> last_alarm_start, in_alarm |-> in_alarm]

\* relay_status, led_status and alerts of the row
TswIndicators(thermal_fuse_blown, alignment_status) ==
    IF thermal_fuse_blown
    THEN [relay_status |-> 0, led_status |-> 0, alerts |-> "THERMAL FUSE BLOWN"]
    ELSE IF alignment_status = 1
    THEN [relay_status |-> 0, led_status |-> 0, alerts |-> "MISALIGNMENT"]
    ELSE [relay_status |-> 1, led_status |-> 1, alerts |-> "NORMAL"]

InitTsw ==
    /\ \E g \in TswGens :
           tsw = [pc |-> "loop",
                  gen |-> g,
                  clock |-> 0,
                  thermal_fuse_blown |-> FALSE,
                  last_alarm_start |-> NoAlarmStart,
                  in_alarm |-> FALSE,
                  aligned_since |-> NoAlarmStart,
                  row |-> NoRow]
    /\ bm = Parked
    /\ fsys = Parked
    /\ ind = Parked
    /\ us = Parked
    /\ dur = Parked
    /\ orch = Parked
    /\ run = Parked
    /\ dash = Parked
    /\ heat = Parked
    /\ imp = Parked
    /\ rul = Parked
    /\ enc = Parked
    /\ lc = Parked

\* one pass of the loop: now is read, the row written, the sleep taken.
\* aligned_since is the time of the first row of the unbroken run of rows with
\* alignment_status 1 that ends with this row, read off the rows themselves
TswTick ==
    /\ tsw.pc = "loop"
    /\ tsw.clock <= MaxTswClock
    /\ \E operational_mode \in {0, 1}, sleep \in TswSleeps :
       \E force \in TswForces(tsw.gen, operational_mode) :
           LET now == tsw.clock
               alignment_status == IF force >= 800 THEN 1 ELSE 0
               alarm == TswAlarm(alignment_status, tsw.in_alarm, tsw.last_alarm_start, now)
               blown == \/ tsw.thermal_fuse_blown
                        \/ /\ alarm.in_alarm
                           /\ alarm.last_alarm_start # NoAlarmStart
                           /\ now - alarm.last_alarm_start >= thermal_alarm_threshold
               shown == TswIndicators(blown, alignment_status)
           IN  tsw' = [tsw EXCEPT
                          !.clock = now + sleep,
                          !.thermal_fuse_blown = blown,
                          !.last_alarm_start = alarm.last_alarm_start,
                          !.in_alarm = alarm.in_alarm,
                          !.aligned_since =
                              IF alignment_status = 0 THEN NoAlarmStart
                              ELSE IF tsw.row.written /\ tsw.row.alignment_status = 1
                                   THEN tsw.aligned_since
                                   ELSE now,
                          !.row = [written |-> TRUE,
                                   timestamp |-> now,
                                   alignment_status |-> alignment_status,
                                   relay_status |-> shown.relay_status,
                                   led_status |-> shown.led_status,
                                   thermal_fuse_blown |-> IF blown THEN 1 ELSE 0,
                                   alerts |-> shown.alerts]]
    /\ UNCHANGED <<bm, fsys, ind, us, dur, orch, run, dash, heat, imp, rul, enc, lc>>

\* KeyboardInterrupt: the loop is left
TswInterrupt ==
    /\ tsw.pc = "loop"
    /\ tsw' = [tsw EXCEPT !.pc = "stopped"]
    /\ UNCHANGED <<bm, fsys, ind, us, dur, orch, run, dash, heat, imp, rul, enc, lc>>

NextTsw ==
    \/ TswTick
    \/ TswInterrupt

SpecTsw == InitTsw /\ [][NextTsw]_vars

TswRowFuse(row) == IF row.written THEN row.thermal_fuse_blown ELSE 0

\* C25: within a run thermal_fuse_blown only changes from 0 to 1; a row that
\* reports 1 has relay_status 0, led_status 0 and the alert THERMAL FUSE
\* BLOWN; and the column changes to 1 only on a row that ends an unbroken run
\* of rows with alignment_status 1 whose first row is at least 5 minutes old
C25_ThermalFuseLatch ==
    /\ []((tsw.pc # "parked" /\ tsw.row.written /\ tsw.row.thermal_fuse_blown = 1) =>
                /\ tsw.row.relay_status = 0
                /\ tsw.row.led_status = 0
                /\ tsw.row.alerts = "THERMAL FUSE BLOWN")
    /\ [][ tsw.pc # "parked" =>
             /\ TswRowFuse(tsw.row) = 1 => TswRowFuse(tsw'.row) = 1
             /\ (TswRowFuse(tsw.row) = 0 /\ TswRowFuse(tsw'.row) = 1) =>
                    /\ tsw'.row.alignment_status = 1
                    /\ tsw'.aligned_since # NoAlarmStart
                    /\ tsw'.row.timestamp - tsw'.aligned_since >= thermal_alarm_threshold ]_vars

\* the fuse has blown after a run that was broken and begun again, and a
\* later row with alignment_status 0 still reports it
C25_Witness ==
    /\ tsw.pc # "parked"
    /\ tsw.row.written
    /\ tsw.row.thermal_fuse_blown = 1
    /\ tsw.row.alignment_status = 0
    /\ tsw.row.timestamp > thermal_alarm_threshold + 1

----------------------------------------------------------------------------
(* generate_impact_bed_accelerometer_data: an impact is triggered at random *)
(* when none is in progress and then adds one value of its Hanning profile  *)
(* to each of the next impact_samples rows.  Profile values in 0.01 g.      *)

\* sample_rate_hz: the default 100, and 50, 25 and 10
ImpSampleRates == {100, 50, 25, 10}

\* int(impact_duration * sample_rate_hz) with impact_duration = 0.04
ImpactSamples(sample_rate_hz) == (4 * sample_rate_hz) \div 100

\* 100 * np.hanning(M) for the lengths that occur
Hanning(M) ==
    CASE M = 4 -> <<0, 75, 75, 0>>
      [] M = 2 -> <<0, 0>>
      [] M = 1 -> <<100>>
      [] OTHER -> <<>>

\* np.random.uniform(20, 60)
ImpactGains == {20, 60}

ImpactTriggersAnytime(impact_cooldown, draw) == draw

\* impact_cooldown == 0 and np.random.rand() < 0.01
ImpactTriggers(impact_cooldown, draw) == impact_cooldown = 0 /\ draw

InitImp ==
    /\ \E rate \in ImpSampleRates :
           imp = [pc |-> "loop",
                  impact_samples |-> ImpactSamples(rate),
                  impact_cooldown |-> 0,
                  impact_idx |-> 0,
                  impact_profile |-> <<>>,
                  rows |-> 0,
                  impacts |-> 0,
                  impact_rows |-> 0,
                  row |-> NoRow]
    /\ bm = Parked
    /\ fsys = Parked
    /\ ind = Parked
    /\ us = Parked
    /\ dur = Parked
    /\ orch = Parked
    /\ run = Parked
    /\ dash = Parked
    /\ heat = Parked
    /\ tsw = Parked
    /\ rul = Parked
    /\ enc = Parked
    /\ lc = Parked

\* one pass of the loop.  impacts is 1 once an impact has been triggered,
\* impact_rows the rows with impact_event = 1 written since the last trigger
ImpTick ==
    /\ imp.pc = "loop"
    /\ imp.rows < MaxImpRows
    /\ \E draw \in BOOLEAN, gain \in ImpactGains :
           LET trigger == ImpactTriggers(imp.impact_cooldown, draw)
               profile == IF trigger
                          THEN [k \in 1..imp.impact_samples |->
                                   Hanning(imp.impact_samples)[k] * gain]
                          ELSE imp.impact_profile
               cooldown == IF trigger THEN imp.impact_samples ELSE imp.impact_cooldown
               idx == IF trigger THEN 0 ELSE imp.impact_idx
               active == cooldown > 0
               in_range == idx + 1 \in 1..Len(profile)
           IN  imp' = [imp EXCEPT
                          !.impact_profile = profile,
                          !.impact_cooldown = IF active THEN cooldown - 1 ELSE cooldown,
                          !.impact_idx = IF active THEN idx + 1 ELSE idx,
                          !.rows = @ + 1,
                          !.impacts = IF trigger THEN 1 ELSE @,
                          !.impact_rows = (IF trigger THEN 0 ELSE @)
                                              + (IF active THEN 1 ELSE 0),
                          !.pc = IF active /\ ~in_range THEN "raised" ELSE "loop",
                          !.row = [written |-> TRUE,
                                   triggered |-> trigger,
                                   impact_event |-> IF active THEN 1 ELSE 0,
                                   index_read |-> IF active THEN idx ELSE -1,
                                   impact_added |-> IF active /\ in_range
                                                    THEN profile[idx + 1] ELSE 0]]
    /\ UNCHANGED <<bm, fsys, ind, us, dur, orch, run, dash, heat, tsw, rul, enc, lc>>

\* KeyboardInterrupt: the loop is left
ImpInterrupt ==
    /\ imp.pc = "loop"
    /\ imp' = [imp EXCEPT !.pc = "stopped"]
    /\ UNCHANGED <<bm, fsys, ind, us, dur, orch, run, dash, heat, tsw, rul, enc, lc>>

NextImp ==
    \/ ImpTick
    \/ ImpInterrupt

SpecImp == InitImp /\ [][NextImp]_vars

\* C26: an impact puts impact_event = 1 on impact_samples consecutive rows,
\* never more, and exactly that many once it has run its course; the profile
\* is added on those rows only; an impact is triggered only when none is in
\* progress; and the profile index read is within 0..impact_samples-1
C26_ImpactWindow ==
    /\ []((imp.pc # "parked" /\ imp.row.written) =>
            /\ imp.pc # "raised"
            /\ imp.impact_cooldown \in 0..imp.impact_samples
            /\ imp.impact_rows <= imp.impact_samples
            /\ imp.impact_rows + imp.impact_cooldown = imp.impacts * imp.impact_samples
            /\ imp.row.impact_event = 1 =>
                   imp.row.index_read \in 0..(imp.impact_samples - 1)
            /\ imp.row.impact_event = 0 =>
                   (imp.row.impact_added = 0 /\ imp.row.index_read = -1))
    /\ [][ (imp.pc # "parked" /\ imp'.rows = imp.rows + 1) =>
             /\ imp'.row.triggered => imp.impact_cooldown = 0
             /\ imp.impact_cooldown > 0 =>
                    (imp'.row.impact_event = 1 /\ imp'.impact_rows = imp.impact_rows + 1) ]_vars

\* an impact of four rows has run its course, its last row read index 3, and
\* it has added the middle of the profile
C26_Witness ==
    /\ imp.pc = "loop"
    /\ imp.impact_samples = 4
    /\ imp.impact_rows = 4
    /\ imp.impact_cooldown = 0
    /\ imp.row.impact_event = 1
    /\ imp.row.index_read = 3
    /\ imp.impact_profile[2] = 4500

\* the output_state column of a run of generate_inductive_data with the given
\* switching function over the given distances, last being the electrical
\* output before the first of them
RECURSIVE IndOutputs(_, _, _)
IndOutputs(switching_function, last, distances) ==
    IF distances = <<>> THEN <<>>
    ELSE LET previous == PreviousInternalSensingState(switching_function, last)
             sensed   == InternalTargetSensed(previous, Head(distances))
             current  == ElectricalOutputState(switching_function, sensed)
         IN  <<current>> \o IndOutputs(switching_function, current, Tail(distances))

IndDual(switching_function) == IF switching_function = "NO" THEN "NC" ELSE "NO"

\* C27: over one and the same distance sequence the output_state written with
\* switching function NC is on every tick, the first included, 1 minus the
\* output_state written with NO
C27_NoNcDuality ==
    ind.pc # "parked" =>
        LET dual == IndDual(ind.switching_function)
            outs == IndOutputs(dual, InitialElectricalOutputState(dual),
                               [k \in 1..Len(ind.rows) |-> ind.rows[k].distance])
        IN  \A k \in 1..Len(ind.rows) : ind.rows[k].output_state = 1 - outs[k]

\* an NC run whose first distance lies inside the hysteresis band, followed by
\* a detection and a release
C27_Witness ==
    /\ ind.pc # "parked"
    /\ ind.switching_function = "NC"
    /\ Len(ind.rows) >= 3
    /\ ind.rows[1].distance = 41000
    /\ ind.rows[1].output_state = 1
    /\ ind.rows[2].output_state = 0
    /\ ind.rows[3].output_state = 1

----------------------------------------------------------------------------
(* calculate_rul on the table a dashboard page loads: read_csv numbers the  *)
(* rows of the file 0..n-1 (the index), load_sensor_data sorts them by      *)
(* timestamp and keeps the index, calculate_rul takes the index labels of   *)
(* the event rows and returns one value per position.                       *)

\* pd.read_csv: the rows of the file with the default RangeIndex
ReadCsv(file) == [k \in 1..Len(file) |-> [file[k] EXCEPT !.index = k - 1]]

RECURSIVE SelectEventIndices(_)
\* df.index[df[event_col] == 1].tolist()
SelectEventIndices(df) ==
    IF df = <<>> THEN <<>>
    ELSE (IF Head(df).event = 1 THEN <<Head(df).index>> ELSE <<>>)
             \o SelectEventIndices(Tail(df))

RECURSIVE FutureEvents(_, _)
\* [idx for idx in event_indices if idx >= i]
FutureEvents(event_indices, i) ==
    IF event_indices = <<>> THEN <<>>
    ELSE (IF Head(event_indices) >= i THEN <<Head(event_indices)>> ELSE <<>>)
             \o FutureEvents(Tail(event_indices), i)

\* calculate_rul(df): the list it returns, position i of range(n) at i + 1
CalculateRul(df) ==
    LET event_indices == SelectEventIndices(df)
        n == Len(df)
    IN  [p \in 1..n |->
            LET i == p - 1
                future == FutureEvents(event_indices, i)
            IN  IF future # <<>> THEN future[1] - i ELSE n - i - 1]

InitRul ==
    /\ \E page \in DashPages :
           rul = [pc |-> "file",
                  page |-> page,
                  file |-> <<>>,
                  df |-> <<>>,
                  rul |-> <<>>]
    /\ bm = Parked
    /\ fsys = Parked
    /\ ind = Parked
    /\ us = Parked
    /\ dur = Parked
    /\ orch = Parked
    /\ run = Parked
    /\ dash = Parked
    /\ heat = Parked
    /\ tsw = Parked
    /\ imp = Parked
    /\ enc = Parked
    /\ lc = Parked

\* the generator appends a row, stamped later than the rows before it
RulAppendRow ==
    /\ rul.pc = "file"
    /\ Len(rul.file) < MaxRulRows
    /\ \E event \in {0, 1} :
           rul' = [rul EXCEPT
                      !.file = Append(@, [ts |-> Len(rul.file) + 1,
                                          format |-> "isoformat",
                                          event |-> event,
                                          index |-> -1])]
    /\ UNCHANGED <<bm, fsys, ind, us, dur, orch, run, dash, heat, tsw, imp, enc, lc>>

\* the page runs: df = load_sensor_data(path)
RulLoad ==
    /\ rul.pc = "file"
    /\ rul' = [rul EXCEPT !.pc = "loaded",
                          !.df = LoadSensorData(rul.page, ReadCsv(rul.file))]
    /\ UNCHANGED <<bm, fsys, ind, us, dur, orch, run, dash, heat, tsw, imp, enc, lc>>

\* df['rul'] = calculate_rul(df, event_col='event')
RulCalculate ==
    /\ rul.pc = "loaded"
    /\ rul' = [rul EXCEPT !.pc = "calculated", !.rul = CalculateRul(rul.df)]
    /\ UNCHANGED <<bm, fsys, ind, us, dur, orch, run, dash, heat, tsw, imp, enc, lc>>

NextRul ==
    \/ RulAppendRow
    \/ RulLoad
    \/ RulCalculate

SpecRul == InitRul /\ [][NextRul]_vars

\* positions (from 0) of the event rows of the table at or after position i
RulEventPositions(df, i) == { j \in i..(Len(df) - 1) : df[j + 1].event = 1 }

\* the smallest element of a non-empty set of numbers
RulMin(S) == CHOOSE x \in S : \A y \in S : x <= y

\* C28 as stated: for the table a page passes in, the value for position i is
\* j - i for the nearest position j >= i holding an event row, and n - i - 1
\* when no event row follows
C28_RulIsDistanceToNextEvent ==
    (rul.pc = "calculated") =>
        \A i \in 0..(Len(rul.df) - 1) :
            rul.rul[i + 1] =
                IF RulEventPositions(rul.df, i) # {}
                THEN RulMin(RulEventPositions(rul.df, i)) - i
                ELSE Len(rul.df) - i - 1

----------------------------------------------------------------------------
(* IncrementalEncoderSimulator.generate_data: one tick draws the rpm, adds  *)
(* the pulses of the interval to pulse_count in the current direction,      *)
(* draws the direction anew and writes the row.                             *)

\* generate_pulses(rpm) = int((rpm / 60) * 1024 * 0.01) for rpm = 400 * uniform(0.98, 1.02)
EncNewPulses == {66, 68, 69}

InitEnc ==
    /\ enc = [pc |-> "loop",
              pulse_count |-> 0,
              direction |-> 1,
              rows |-> 0,
              row |-> NoRow]
    /\ bm = Parked
    /\ fsys = Parked
    /\ ind = Parked
    /\ us = Parked
    /\ dur = Parked
    /\ orch = Parked
    /\ run = Parked
    /\ dash = Parked
    /\ heat = Parked
    /\ tsw = Parked
    /\ imp = Parked
    /\ rul = Parked
    /\ lc = Parked

\* one pass of the loop body
EncTick ==
    /\ enc.pc = "loop"
    /\ enc.rows < MaxEncRows
    /\ \E new_pulses \in EncNewPulses, direction \in {1, -1} :
           LET pulse_count == enc.pulse_count + new_pulses * enc.direction
           IN  enc' = [enc EXCEPT
                          !.pulse_count = pulse_count,
                          !.direction = direction,
                          !.rows = @ + 1,
                          !.row = [written |-> TRUE,
                                   previous_pulse_count |-> enc.pulse_count,
                                   pulse_count |-> pulse_count,
                                   direction |-> IF direction = 1 THEN "FORWARD"
                                                 ELSE "REVERSE"]]
    /\ UNCHANGED <<bm, fsys, ind, us, dur, orch, run, dash, heat, tsw, imp, rul, lc>>

\* duration_hours has passed at the top of the loop, or KeyboardInterrupt
EncBreak ==
    /\ enc.pc = "loop"
    /\ enc' = [enc EXCEPT !.pc = "finished"]
    /\ UNCHANGED <<bm, fsys, ind, us, dur, orch, run, dash, heat, tsw, imp, rul, lc>>

NextEnc ==
    \/ EncTick
    \/ EncBreak

SpecEnc == InitEnc /\ [][NextEnc]_vars

\* C29 as stated: in every row pulse_count has increased over the row before
\* iff the row's direction is FORWARD and decreased iff it is REVERSE
C29_DirectionMatchesPulseCount ==
    (enc.pc # "parked" /\ enc.row.written) =>
        /\ enc.row.pulse_count > enc.row.previous_pulse_count
               <=> enc.row.direction = "FORWARD"
        /\ enc.row.pulse_count < enc.row.previous_pulse_count
               <=> enc.row.direction = "REVERSE"

----------------------------------------------------------------------------
(* generate_load_cell_data: the call builds the path it opens, appends the  *)
(* header to an empty file and one row per tick.  Two calls and the files   *)
(* of the file system, each absent or holding a number of lines.            *)

LcCalls == {1, 2}

\* the path the function builds: project_root / "data_output/conveyor_belt/impact_bed_load_cell.csv"
LcProjectPath == "data_output/conveyor_belt/impact_bed_load_cell.csv"

\* values of the output_path argument
LcArguments == {"a.csv", "b.csv", LcProjectPath}

LcPaths == LcArguments \cup {LcProjectPath}

\* lines 21-22: the path that is opened, whatever output_path was given
LcOpenedPath(output_path) == LcProjectPath

InitLc ==
    /\ \E args \in [LcCalls -> LcArguments] :
           lc = [pc |-> "running",
                 call |-> [c \in LcCalls |->
                                 [pc |-> "not_called", output_path |-> args[c],
                                  path |-> "none", rows |-> 0]],
                 files |-> [p \in LcPaths |-> -1]]
    /\ bm = Parked
    /\ fsys = Parked
    /\ ind = Parked
    /\ us = Parked
    /\ dur = Parked
    /\ orch = Parked
    /\ run = Parked
    /\ dash = Parked
    /\ heat = Parked
    /\ tsw = Parked
    /\ imp = Parked
    /\ rul = Parked
    /\ enc = Parked

\* the call up to the loop: the path, file_exists, open in append mode, and the
\* header when the file was absent or empty (-1: absent)
LcCall(c) ==
    /\ lc.call[c].pc = "not_called"
    /\ LET path == LcOpenedPath(lc.call[c].output_path)
           file_exists == lc.files[path] > 0
       IN  lc' = [lc EXCEPT
                     !.call[c].pc = "loop",
                     !.call[c].path = path,
                     !.files[path] = IF file_exists THEN @ ELSE 1]
    /\ UNCHANGED <<bm, fsys, ind, us, dur, orch, run, dash, heat, tsw, imp, rul, enc>>

\* one pass of the loop: a row is appended to the opened file
LcTick(c) ==
    /\ lc.call[c].pc = "loop"
    /\ lc.call[c].rows < MaxLcRows
    /\ lc' = [lc EXCEPT
                 !.call[c].rows = @ + 1,
                 !.files[lc.call[c].path] = @ + 1]
    /\ UNCHANGED <<bm, fsys, ind, us, dur, orch, run, dash, heat, tsw, imp, rul, enc>>

\* KeyboardInterrupt: the loop is left and the file closed
LcInterrupt(c) ==
    /\ lc.call[c].pc = "loop"
    /\ lc' = [lc EXCEPT !.call[c].pc = "stopped"]
    /\ UNCHANGED <<bm, fsys, ind, us, dur, orch, run, dash, heat, tsw, imp, rul, enc>>

NextLc ==
    \/ \E c \in LcCalls : LcCall(c)
    \/ \E c \in LcCalls : LcTick(c)
    \/ \E c \in LcCalls : LcInterrupt(c)

SpecLc == InitLc /\ [][NextLc]_vars

LcStarted == { c \in LcCalls : lc.call[c].pc # "not_called" }

\* C30 as stated: a call writes to the file named by its output_path argument,
\* two calls given different arguments write to different files, and no file
\* exists that is not the argument of a call that has started
C30_WritesToGivenPath ==
    lc.pc # "parked" =>
        /\ \A c \in LcStarted : lc.call[c].path = lc.call[c].output_path
        /\ \A c \in LcStarted : \A d \in LcStarted :
               lc.call[c].output_path # lc.call[d].output_path =>
                   lc.call[c].path # lc.call[d].path
        /\ \A p \in LcPaths :
               lc.files[p] # -1 => \E c \in LcStarted : lc.call[c].output_path = p

====
